---- MODULE Spec2Model ----
(***************************************************************************)
(* ContentHub: secure ingress of untrusted input.                          *)
(*                                                                         *)
(*   - image URL validation and download (backend/url_security.py,         *)
(*     backend/image_service.py), as recorded in the security-fix summary  *)
(*     src/unnamed/part_010;                                               *)
(*   - PDF upload validation (backend/file_security.py and the upload      *)
(*     endpoint of backend/main.py), same document.                        *)
(*                                                                         *)
(* Helpers the document calls but does not show (validate_url_format,      *)
(* is_domain_allowed, resolve_hostname, is_private_ip,                     *)
(* validate_file_extension, validate_file_size) follow spec.md.            *)
(*                                                                         *)
(* The Python exceptions URLSecurityError(msg) / FileValidationError(msg)  *)
(* are modelled by the cause they report; the causes carry the names       *)
(* spec.md gives them.                                                     *)
(***************************************************************************)
EXTENDS Integers, Sequences, FiniteSets, TLC

VARIABLES
    allowed_domains,  \* url_security: DEFAULT_ALLOWED_DOMAINS + ALLOWED_IMAGE_DOMAINS
    dev_mode,         \* url_security: DEV_MODE environment flag
    dl_pc,            \* download_image_from_url: position of the call
    dl_url,           \* the url after sanitize_url
    dl_dns,           \* what DNS held for the host when validation ran
    dl_val,           \* outcome of validate_image_url
    dl_conn,          \* address requests.get connected to
    up_pc,            \* PDF upload endpoint: position of the call
    up_req,           \* the uploaded file (filename, file_content)
    up_res,           \* outcome of validate_upload_file
    cipher_key,       \* crypto_utils: the key of CryptoManager.cipher
    store,            \* configs table: key -> stored value
    last_plain,       \* per key, the value the last configuration update gave
    written,          \* keys updated since the process started
    cfg_out,          \* result of the last configuration read
    st_form,          \* Settings: openaiKey and aiModel, by configuration key
    st_loading,       \* Settings: loading
    st_loaded,        \* Settings: GET /api/configs answered with code 200
    st_resp,          \* Settings: answer to the PUT in flight
    st_saving,        \* Settings: saving
    st_edited,        \* Settings: fields the user changed since the page opened
    st_message,       \* Settings: the last message shown
    bu_pc,            \* Home.handleSubmitPDF: position of the call
    pdfFiles,         \* Home: the selected files
    bu_i,             \* handleSubmitPDF: i (counted from 1)
    successCount,     \* handleSubmitPDF: successCount
    bu_sent,          \* per selected file, the requests sent for it
    bu_accepted,      \* files the server answered with code 200
    bu_failed_shown,  \* files whose failure message.error reported
    bu_final,         \* the message that ends the call, with its count
    tp_mounted,       \* Topics: the component is mounted
    tp_page,          \* Topics: page
    searchKeyword,    \* Topics: searchKeyword
    selectedTag,      \* Topics: selectedTag
    tp_timers,        \* Topics: pending setTimeout callbacks, each with the
                      \* state its loadTopics closed over
    tp_requests,      \* Topics: topic-list requests in flight
    tp_shown,         \* Topics: the request whose result topics holds
    tp_searched,      \* handleSearch was the last thing the user did
    tp_first,         \* the first request sent since that handleSearch
    tp_failed,        \* a request failed since that handleSearch
    ex_pc,            \* popup.extractFromUrl: position of the call
    ex_tab,           \* extractFromUrl: tab.id (0: none)
    ex_status,        \* tab.status of that tab
    ex_open,          \* temporary tabs the browser holds open
    ex_next,          \* the id chrome.tabs.create gives next
    ex_shown,         \* popup: what the call displayed
    oc_pc,            \* content.extractContent: position of the call
    oc_useOCR,        \* extractContent: useOCR
    oc_result,        \* extractContent: result (originalText, images,
                      \* ocrResults, combinedText)
    oc_request,       \* how the request of performOCR went
    mt_db,            \* the server's materials, in insertion order
    mt_mounted,       \* Materials: the component is mounted
    materials,        \* Materials: materials (the list displayed), by id
    mt_total,         \* Materials: total
    mt_page,          \* Materials: page
    mt_keyword,       \* Materials: searchKeyword
    sourceFilter,     \* Materials: sourceFilter
    selectedIds,      \* Materials: selectedIds
    usageStats,       \* usage tracker: the object usageStats
    localStorage,     \* localStorage item contenthub_usage
    us_today,         \* the day new Date() gives
    us_calls,         \* calls of recordUsage so far
    us_models,        \* models recorded since the script started
    mk_topics,        \* mock server: topics
    topicIdCounter,   \* mock server: topicIdCounter
    mk_materials,     \* mock server: materials, by id
    materialIdCounter,\* mock server: materialIdCounter
    mk_query,         \* the query of the last list request
    mk_response       \* data of the answer to it

url_vars == <<allowed_domains, dev_mode, dl_pc, dl_url, dl_dns, dl_val, dl_conn>>
up_vars  == <<up_pc, up_req, up_res>>
cfg_vars == <<cipher_key, store, last_plain, written, cfg_out>>
st_vars  == <<st_form, st_loading, st_loaded, st_resp, st_saving, st_edited,
              st_message>>
bu_vars  == <<bu_pc, pdfFiles, bu_i, successCount, bu_sent, bu_accepted,
              bu_failed_shown, bu_final>>
tp_vars  == <<tp_mounted, tp_page, searchKeyword, selectedTag, tp_timers,
              tp_requests, tp_shown, tp_searched, tp_first, tp_failed>>
ex_vars  == <<ex_pc, ex_tab, ex_status, ex_open, ex_next, ex_shown>>
oc_vars  == <<oc_pc, oc_useOCR, oc_result, oc_request>>
mt_vars  == <<mt_db, mt_mounted, materials, mt_total, mt_page, mt_keyword,
              sourceFilter, selectedIds>>
us_vars  == <<usageStats, localStorage, us_today, us_calls, us_models>>
mk_vars  == <<mk_topics, topicIdCounter, mk_materials, materialIdCounter,
              mk_query, mk_response>>
page_vars == <<st_vars, bu_vars, tp_vars, ex_vars, oc_vars, mt_vars, us_vars,
               mk_vars>>
server_vars == <<url_vars, up_vars, cfg_vars>>
pages_but_st == <<bu_vars, tp_vars, ex_vars, oc_vars, mt_vars, us_vars,
                  mk_vars>>
pages_but_bu == <<st_vars, tp_vars, ex_vars, oc_vars, mt_vars, us_vars,
                  mk_vars>>
pages_but_tp == <<st_vars, bu_vars, ex_vars, oc_vars, mt_vars, us_vars,
                  mk_vars>>
pages_but_ex == <<st_vars, bu_vars, tp_vars, oc_vars, mt_vars, us_vars,
                  mk_vars>>
pages_but_oc == <<st_vars, bu_vars, tp_vars, ex_vars, mt_vars, us_vars,
                  mk_vars>>
pages_but_mt == <<st_vars, bu_vars, tp_vars, ex_vars, oc_vars, us_vars,
                  mk_vars>>
pages_but_us == <<st_vars, bu_vars, tp_vars, ex_vars, oc_vars, mt_vars,
                  mk_vars>>
pages_but_mk == <<st_vars, bu_vars, tp_vars, ex_vars, oc_vars, mt_vars,
                  us_vars>>
vars     == <<allowed_domains, dev_mode, dl_pc, dl_url, dl_dns, dl_val, dl_conn,
              up_pc, up_req, up_res,
              cipher_key, store, last_plain, written, cfg_out,
              page_vars>>

-----------------------------------------------------------------------------
(* Bounds *)

\* most addresses one DNS answer carries
MaxAnswers == 2

\* most characters of a file name in front of its extension
MaxStem == 3

\* most characters of a configuration value
MaxValueLen == 4

-----------------------------------------------------------------------------
(* IPv4 addresses: four octets.  IPv6 is not modelled. *)

NoAddr == <<>>

PUB_DNS      == <<8, 8, 8, 8>>
PUB_EDGE     == <<172, 32, 0, 1>>       \* first /12 block after 172.16.0.0/12
ADDR_10      == <<10, 0, 0, 1>>
ADDR_172     == <<172, 31, 255, 254>>
ADDR_192     == <<192, 168, 1, 1>>
ADDR_LOOP    == <<127, 0, 0, 1>>
ADDR_META    == <<169, 254, 169, 254>>  \* cloud metadata endpoint

Addrs == {PUB_DNS, PUB_EDGE, ADDR_10, ADDR_172, ADDR_192, ADDR_LOOP, ADDR_META}

Net(a, b, c, d, prefix) == [addr |-> <<a, b, c, d>>, prefix |-> prefix]

\* PRIVATE_IP_RANGES as listed, with one entry lost
PRIVATE_IP_RANGES_LISTED_drop_loopback ==
    { Net(10, 0, 0, 0, 8), Net(172, 16, 0, 0, 12), Net(192, 168, 0, 0, 16) }

\* the entries the document lists
PRIVATE_IP_RANGES_LISTED ==
    { Net(10, 0, 0, 0, 8), Net(172, 16, 0, 0, 12), Net(192, 168, 0, 0, 16),
      Net(127, 0, 0, 0, 8) }

\* the entries behind "# ... more": spec.md names the link-local range
PRIVATE_IP_RANGES_MORE == { Net(169, 254, 0, 0, 16) }

PRIVATE_IP_RANGES == PRIVATE_IP_RANGES_LISTED \cup PRIVATE_IP_RANGES_MORE

Min(a, b) == IF a < b THEN a ELSE b
Max(a, b) == IF a > b THEN a ELSE b

Pow2(n) == IF n = 0 THEN 1 ELSE IF n = 1 THEN 2 ELSE IF n = 2 THEN 4
           ELSE IF n = 3 THEN 8 ELSE IF n = 4 THEN 16 ELSE IF n = 5 THEN 32
           ELSE IF n = 6 THEN 64 ELSE IF n = 7 THEN 128 ELSE 256

\* ip in network: the leading prefix bits agree, octet by octet
InNetwork(ip, net) ==
    \A i \in 1..4 :
        LET k == Min(8, Max(0, net.prefix - 8 * (i - 1)))
        IN  ip[i] \div Pow2(8 - k) = net.addr[i] \div Pow2(8 - k)

is_private_ip(ip) == \E net \in PRIVATE_IP_RANGES : InNetwork(ip, net)

-----------------------------------------------------------------------------
(* Host names: a literal address, or dot-separated labels *)

Name(labels) == [ip |-> NoAddr, labels |-> labels]
Literal(ip)  == [ip |-> ip, labels |-> <<>>]

IsLiteral(hostname) == hostname.ip # NoAddr

DEFAULT_ALLOWED_DOMAINS ==
    { Name(<<"pbs", "twimg", "com">>), Name(<<"xhscdn", "com">>),
      Name(<<"sinaimg", "cn">>), Name(<<"tiktokcdn", "com">>),
      Name(<<"imgur", "com">>), Name(<<"cloudfront", "net">>) }

HOST_CDN   == Name(<<"img", "xhscdn", "com">>)
HOST_TWIMG == Name(<<"pbs", "twimg", "com">>)
HOST_EVIL  == Name(<<"evil", "example", "com">>)

Hostnames == {HOST_CDN, HOST_TWIMG, HOST_EVIL,
              Literal(ADDR_LOOP), Literal(ADDR_META), Literal(PUB_DNS)}

\* values of ALLOWED_IMAGE_DOMAINS an operator may set
ExtraDomainChoices ==
    { {}, {Name(<<"example", "com">>)}, {Literal(ADDR_LOOP), Literal(PUB_DNS)} }

IsSuffix(s, t) ==
    /\ Len(s) <= Len(t)
    /\ \A i \in 1..Len(s) : s[i] = t[Len(t) - Len(s) + i]

\* the host name equals an allowed domain or is a subdomain of one;
\* DEV_MODE switches the allow list off
is_domain_allowed(hostname, allowed) ==
    \/ dev_mode
    \/ \E d \in allowed :
          IF IsLiteral(d) THEN hostname.ip = d.ip
          ELSE ~IsLiteral(hostname) /\ IsSuffix(d.labels, hostname.labels)

-----------------------------------------------------------------------------
(* URLs: what urlparse yields of the string *)

Schemes == {"http", "https", "ftp", "file", "gopher"}

URLs == [scheme : Schemes, userinfo : BOOLEAN, hostname : Hostnames,
         padded : BOOLEAN]

NoUrl == [scheme |-> "", userinfo |-> FALSE, hostname |-> Name(<<>>),
          padded |-> FALSE]

\* strips surrounding white space
sanitize_url(url) == [url EXCEPT !.padded = FALSE]

NoError               == "none"
URLFormatError        == "URLFormatError"
DomainNotAllowedError == "DomainNotAllowedError"
DNSResolutionError    == "DNSResolutionError"
PrivateAddressError   == "PrivateAddressError"

validate_url_format(url) ==
    IF url.scheme \notin {"http", "https"} THEN URLFormatError
    ELSE IF url.userinfo THEN URLFormatError
    ELSE NoError

-----------------------------------------------------------------------------
(* DNS: the answer of one lookup *)

DnsFailures == { [status |-> "nxdomain", addrs |-> {}],
                 [status |-> "timeout",  addrs |-> {}] }

DnsAnswers ==
    { [status |-> "ok", addrs |-> S] :
        S \in { T \in SUBSET Addrs : Cardinality(T) \in 1..MaxAnswers } }
    \cup DnsFailures

NoAnswer == [status |-> "none", addrs |-> {}]

\* what the resolver library answers for a host: a literal is its own address
Resolver(hostname, answer) ==
    IF IsLiteral(hostname) THEN [status |-> "ok", addrs |-> {hostname.ip}]
    ELSE answer

\* one address of the answer (pick, which the caller draws from a.addrs), or
\* the resolution error
resolve_hostname(hostname, answer, pick) ==
    LET a == Resolver(hostname, answer)
    IN  IF a.status # "ok" THEN [err |-> DNSResolutionError, ip |-> NoAddr]
        ELSE [err |-> NoError, ip |-> pick]

-----------------------------------------------------------------------------
(* validate_image_url *)

UrlReject(err, lookups) ==
    [ok |-> FALSE, err |-> err, resolved_ip |-> NoAddr, lookups |-> lookups]

UrlAccept(ip) ==
    [ok |-> TRUE, err |-> NoError, resolved_ip |-> ip, lookups |-> 1]

NoVal == [ok |-> FALSE, err |-> NoError, resolved_ip |-> NoAddr, lookups |-> 0]

\* the allow-list check moved in front of the format check
validate_image_url_allowlist_first(url, answer, pick) ==
    IF ~is_domain_allowed(url.hostname, allowed_domains)
    THEN UrlReject(DomainNotAllowedError, 0)
    ELSE IF validate_url_format(url) # NoError
    THEN UrlReject(validate_url_format(url), 0)
    ELSE LET r == resolve_hostname(url.hostname, answer, pick)
         IN  IF r.err # NoError THEN UrlReject(r.err, 1)
             ELSE IF is_private_ip(r.ip) THEN UrlReject(PrivateAddressError, 1)
             ELSE UrlAccept(r.ip)

\* the allow-list check lost
validate_image_url_no_allowlist(url, answer, pick) ==
    IF validate_url_format(url) # NoError
    THEN UrlReject(validate_url_format(url), 0)
    ELSE LET r == resolve_hostname(url.hostname, answer, pick)
         IN  IF r.err # NoError THEN UrlReject(r.err, 1)
             ELSE IF is_private_ip(r.ip) THEN UrlReject(PrivateAddressError, 1)
             ELSE UrlAccept(r.ip)

\* a failed resolution let through
validate_image_url_fail_open(url, answer, pick) ==
    IF validate_url_format(url) # NoError
    THEN UrlReject(validate_url_format(url), 0)
    ELSE IF ~is_domain_allowed(url.hostname, allowed_domains)
    THEN UrlReject(DomainNotAllowedError, 0)
    ELSE LET r == resolve_hostname(url.hostname, answer, pick)
         IN  IF r.err # NoError THEN UrlAccept(NoAddr)
             ELSE IF is_private_ip(r.ip) THEN UrlReject(PrivateAddressError, 1)
             ELSE UrlAccept(r.ip)

\* DEV_MODE taken as a switch for the whole validation
validate_image_url_dev_mode_skips_dns(url, answer, pick) ==
    IF validate_url_format(url) # NoError
    THEN UrlReject(validate_url_format(url), 0)
    ELSE IF dev_mode THEN UrlAccept(pick)
    ELSE IF ~is_domain_allowed(url.hostname, allowed_domains)
    THEN UrlReject(DomainNotAllowedError, 0)
    ELSE LET r == resolve_hostname(url.hostname, answer, pick)
         IN  IF r.err # NoError THEN UrlReject(r.err, 1)
             ELSE IF is_private_ip(r.ip) THEN UrlReject(PrivateAddressError, 1)
             ELSE UrlAccept(r.ip)

\* 1. format, 2. allow list, 3. DNS resolution and private-address check
validate_image_url(url, answer, pick) ==
    IF validate_url_format(url) # NoError
    THEN UrlReject(validate_url_format(url), 0)
    ELSE IF ~is_domain_allowed(url.hostname, allowed_domains)
    THEN UrlReject(DomainNotAllowedError, 0)
    ELSE LET r == resolve_hostname(url.hostname, answer, pick)
         IN  IF r.err # NoError THEN UrlReject(r.err, 1)
             ELSE IF is_private_ip(r.ip) THEN UrlReject(PrivateAddressError, 1)
             ELSE UrlAccept(r.ip)

-----------------------------------------------------------------------------
(* download_image_from_url *)

\* steps 1 and 2: sanitize_url, then validate_image_url; a URLSecurityError
\* ends the call with an exception.  answer is what DNS holds for the host
\* at this moment, pick the address of it the lookup returns.
DownloadValidate ==
    /\ dl_pc = "idle"
    /\ \E url \in URLs, answer \in DnsAnswers, pick \in Addrs :
          /\ \/ pick \in Resolver(url.hostname, answer).addrs
             \/ Resolver(url.hostname, answer).status # "ok"
          /\ LET u == sanitize_url(url)
                 v == validate_image_url(u, answer, pick)
             IN  /\ dl_url' = u
                 /\ dl_dns' = Resolver(u.hostname, answer)
                 /\ dl_val' = v
                 /\ dl_pc' = IF v.ok THEN "validated" ELSE "rejected"
    /\ UNCHANGED <<allowed_domains, dev_mode, dl_conn>>
    /\ UNCHANGED up_vars
    /\ UNCHANGED cfg_vars
    /\ UNCHANGED page_vars

\* step 3: requests.get(url) looks the host up again and connects to one of
\* the addresses of that lookup
DownloadFetch ==
    /\ dl_pc = "validated"
    /\ \E answer \in DnsAnswers, pick \in Addrs :
          LET a == Resolver(dl_url.hostname, answer)
          IN  IF a.status = "ok"
              THEN /\ pick \in a.addrs
                   /\ dl_conn' = pick
                   /\ dl_pc' = "fetched"
              ELSE /\ dl_conn' = NoAddr
                   /\ dl_pc' = "failed"
    /\ UNCHANGED <<allowed_domains, dev_mode, dl_url, dl_dns, dl_val>>
    /\ UNCHANGED up_vars
    /\ UNCHANGED cfg_vars
    /\ UNCHANGED page_vars

\* the call returns or raises; the next download starts from scratch
DownloadReturn ==
    /\ dl_pc \in {"rejected", "fetched", "failed"}
    /\ dl_pc' = "idle"
    /\ dl_url' = NoUrl
    /\ dl_dns' = NoAnswer
    /\ dl_val' = NoVal
    /\ dl_conn' = NoAddr
    /\ UNCHANGED <<allowed_domains, dev_mode>>
    /\ UNCHANGED up_vars
    /\ UNCHANGED cfg_vars
    /\ UNCHANGED page_vars

-----------------------------------------------------------------------------
(* Uploaded files *)

\* a file name is a sequence of characters; "NUL" stands for the byte \x00
StemChars == {"r", ".", "/", "\\", "NUL"}

Stems == UNION { [1..n -> StemChars] : n \in 0..MaxStem }

Exts == { <<".", "p", "d", "f">>, <<".", "P", "d", "F">>,
          <<".", "e", "x", "e">>, <<".", "p", "d", "f", ".", "e", "x", "e">>,
          <<>> }

Filenames == { stem \o ext : stem \in Stems, ext \in Exts }

\* a file content is its leading bytes, its trailing bytes and filler bytes
\* "x" in between; size is the number of bytes of the whole
Heads == { <<"%", "P", "D", "F", "-", "1", ".", "4">>,
           <<"%", "P", "D", "F">>,
           <<" ", "%", "P", "D", "F", "-">>,
           <<"M", "Z">>,
           <<>> }

Tails == { <<"%", "%", "E", "O", "F">>,
           <<"%", "%", "E", "O", "F", "\n", " ">>,
           <<>> }

MAX_SIZE_MB == 50

BytesPerMB == 1024 * 1024

SizesFor(h, t) ==
    { Len(h) + Len(t), Len(h) + Len(t) + 1,
      MAX_SIZE_MB * BytesPerMB - 1, MAX_SIZE_MB * BytesPerMB,
      MAX_SIZE_MB * BytesPerMB + 1 }

Contents ==
    UNION { { [head |-> ht[1], tail |-> ht[2], size |-> n] :
                n \in SizesFor(ht[1], ht[2]) } : ht \in Heads \X Tails }

ContentLen(c) == c.size

Byte(c, i) ==
    IF i <= Len(c.head) THEN c.head[i]
    ELSE IF i > c.size - Len(c.tail) THEN c.tail[i - (c.size - Len(c.tail))]
    ELSE "x"

\* bytes.startswith
startswith(c, sig) ==
    /\ ContentLen(c) >= Len(sig)
    /\ \A i \in 1..Len(sig) : Byte(c, i) = sig[i]

Whitespace == {" ", "\n", "\t", "\r"}

\* bytes.rstrip: the length left once trailing white space is dropped
RECURSIVE rstrip(_, _)
rstrip(c, n) ==
    IF n > 0 /\ Byte(c, n) \in Whitespace THEN rstrip(c, n - 1) ELSE n

\* bytes.endswith, on the first n bytes
endswith(c, n, sig) ==
    /\ n >= Len(sig)
    /\ \A i \in 1..Len(sig) : Byte(c, n - Len(sig) + i) = sig[i]

-----------------------------------------------------------------------------
(* file_security *)

FilenameInvalidError     == "FilenameInvalidError"
ExtensionNotAllowedError == "ExtensionNotAllowedError"
FileTooLargeError        == "FileTooLargeError"
ContentSignatureError    == "ContentSignatureError"

\* substring test of str: needle in filename
Contains(filename, needle) ==
    \E i \in 1..(Len(filename) - Len(needle) + 1) :
        SubSeq(filename, i, i + Len(needle) - 1) = needle

\* os.path.basename: what follows the last "/"
RECURSIVE basename(_)
basename(filename) ==
    IF filename = <<>> THEN <<>>
    ELSE IF filename[Len(filename)] = "/" THEN <<>>
    ELSE basename(SubSeq(filename, 1, Len(filename) - 1))
           \o <<filename[Len(filename)]>>

ValidName(filename) == [err |-> NoError, filename |-> filename]
InvalidName         == [err |-> FilenameInvalidError, filename |-> <<>>]

\* the back slash missing from the dangerous characters
validate_filename_no_backslash(filename) ==
    IF \E dangerous_char \in {<<".", ".">>, <<"/">>, <<"NUL">>} :
          Contains(filename, dangerous_char)
    THEN InvalidName
    ELSE ValidName(basename(filename))

\* the NUL byte missing from the dangerous characters
validate_filename_no_nul(filename) ==
    IF \E dangerous_char \in {<<".", ".">>, <<"/">>, <<"\\">>} :
          Contains(filename, dangerous_char)
    THEN InvalidName
    ELSE ValidName(basename(filename))

\* '.' written for '..'
validate_filename_single_dot(filename) ==
    IF \E dangerous_char \in {<<".">>, <<"/">>, <<"\\">>, <<"NUL">>} :
          Contains(filename, dangerous_char)
    THEN InvalidName
    ELSE ValidName(basename(filename))

validate_filename(filename) ==
    IF \E dangerous_char \in {<<".", ".">>, <<"/">>, <<"\\">>, <<"NUL">>} :
          Contains(filename, dangerous_char)
    THEN InvalidName
    ELSE ValidName(basename(filename))

lower(ch) ==
    CASE ch = "P" -> "p"
      [] ch = "D" -> "d"
      [] ch = "F" -> "f"
      [] ch = "E" -> "e"
      [] ch = "X" -> "x"
      [] ch = "R" -> "r"
      [] OTHER -> ch

\* the file name, lower-cased, ends in one of the allowed extensions
validate_file_extension(filename, allowed_extensions) ==
    IF \E ext \in allowed_extensions :
          /\ Len(ext) <= Len(filename)
          /\ \A i \in 1..Len(ext) :
                lower(filename[Len(filename) - Len(ext) + i]) = ext[i]
    THEN NoError
    ELSE ExtensionNotAllowedError

\* len(file_content) / (1024 * 1024): whole megabytes and remaining bytes
SizeMB(n) == [whole |-> n \div BytesPerMB, bytes |-> n % BytesPerMB]

validate_file_size(file_content, max_size_mb) ==
    IF ContentLen(file_content) > max_size_mb * BytesPerMB
    THEN [err |-> FileTooLargeError, file_size_mb |-> SizeMB(ContentLen(file_content))]
    ELSE [err |-> NoError, file_size_mb |-> SizeMB(ContentLen(file_content))]

PDF_MAGIC == <<"%", "P", "D", "F", "-">>
PDF_EOF   == <<"%", "%", "E", "O", "F">>

\* the magic compared without its last byte
validate_pdf_structure_short_magic(file_content) ==
    IF ~startswith(file_content, <<"%", "P", "D", "F">>)
    THEN [err |-> ContentSignatureError, warned |-> FALSE]
    ELSE [err |-> NoError,
          warned |-> ~endswith(file_content,
                               rstrip(file_content, ContentLen(file_content)),
                               PDF_EOF)]

\* a missing %%EOF raised instead of logged
validate_pdf_structure_strict_eof(file_content) ==
    IF ~startswith(file_content, PDF_MAGIC)
    THEN [err |-> ContentSignatureError, warned |-> FALSE]
    ELSE IF ~endswith(file_content,
                      rstrip(file_content, ContentLen(file_content)), PDF_EOF)
    THEN [err |-> ContentSignatureError, warned |-> TRUE]
    ELSE [err |-> NoError, warned |-> FALSE]

\* magic bytes are required; a missing %%EOF only logs a warning
validate_pdf_structure(file_content) ==
    IF ~startswith(file_content, PDF_MAGIC)
    THEN [err |-> ContentSignatureError, warned |-> FALSE]
    ELSE [err |-> NoError,
          warned |-> ~endswith(file_content,
                               rstrip(file_content, ContentLen(file_content)),
                               PDF_EOF)]

NoSize == [whole |-> 0, bytes |-> 0]

UpReject(err, size_mb, max_size_mb) ==
    [ok |-> FALSE, err |-> err, filename |-> <<>>, size_mb |-> size_mb,
     max_size_mb |-> max_size_mb, warned |-> FALSE]

\* the signature check moved in front of the size check
validate_upload_file_signature_before_size(filename, file_content, max_size_mb, allowed_extensions) ==
    LET name == validate_filename(filename)
    IN  IF name.err # NoError THEN UpReject(name.err, NoSize, max_size_mb)
        ELSE
        LET safe_filename == name.filename
            ext  == validate_file_extension(safe_filename, allowed_extensions)
            size == validate_file_size(file_content, max_size_mb)
            pdf  == validate_pdf_structure(file_content)
        IN  IF ext # NoError THEN UpReject(ext, NoSize, max_size_mb)
            ELSE IF pdf.err # NoError
            THEN UpReject(pdf.err, size.file_size_mb, max_size_mb)
            ELSE IF size.err # NoError
            THEN UpReject(size.err, size.file_size_mb, max_size_mb)
            ELSE [ok |-> TRUE, err |-> NoError, filename |-> safe_filename,
                  size_mb |-> size.file_size_mb, max_size_mb |-> max_size_mb,
                  warned |-> pdf.warned]

\* the size check moved in front of the extension check
validate_upload_file_size_before_extension(filename, file_content, max_size_mb, allowed_extensions) ==
    LET name == validate_filename(filename)
    IN  IF name.err # NoError THEN UpReject(name.err, NoSize, max_size_mb)
        ELSE
        LET safe_filename == name.filename
            ext  == validate_file_extension(safe_filename, allowed_extensions)
            size == validate_file_size(file_content, max_size_mb)
            pdf  == validate_pdf_structure(file_content)
        IN  IF size.err # NoError
            THEN UpReject(size.err, size.file_size_mb, max_size_mb)
            ELSE IF ext # NoError THEN UpReject(ext, NoSize, max_size_mb)
            ELSE IF pdf.err # NoError
            THEN UpReject(pdf.err, size.file_size_mb, max_size_mb)
            ELSE [ok |-> TRUE, err |-> NoError, filename |-> safe_filename,
                  size_mb |-> size.file_size_mb, max_size_mb |-> max_size_mb,
                  warned |-> pdf.warned]

\* 1. file name, 2. extension, 3. size, 4. PDF structure
validate_upload_file(filename, file_content, max_size_mb, allowed_extensions) ==
    LET name == validate_filename(filename)
    IN  IF name.err # NoError THEN UpReject(name.err, NoSize, max_size_mb)
        ELSE
        LET safe_filename == name.filename
            ext  == validate_file_extension(safe_filename, allowed_extensions)
            size == validate_file_size(file_content, max_size_mb)
            pdf  == validate_pdf_structure(file_content)
        IN  IF ext # NoError THEN UpReject(ext, NoSize, max_size_mb)
            ELSE IF size.err # NoError
            THEN UpReject(size.err, size.file_size_mb, max_size_mb)
            ELSE IF pdf.err # NoError
            THEN UpReject(pdf.err, size.file_size_mb, max_size_mb)
            ELSE [ok |-> TRUE, err |-> NoError, filename |-> safe_filename,
                  size_mb |-> size.file_size_mb, max_size_mb |-> max_size_mb,
                  warned |-> pdf.warned]

-----------------------------------------------------------------------------
(* PDF upload endpoint *)

NoUpload == [filename |-> <<>>, content |-> [head |-> <<>>, tail |-> <<>>, size |-> 0]]
NoUpRes  == UpReject(NoError, NoSize, 0)

\* the endpoint reads the file and validates it with max_size_mb=50 and
\* allowed_extensions={'.pdf'}; a FileValidationError is answered with
\* status 400
UploadPdf ==
    /\ up_pc = "idle"
    /\ \E filename \in Filenames, file_content \in Contents :
          LET res == validate_upload_file(filename, file_content, MAX_SIZE_MB,
                                          {<<".", "p", "d", "f">>})
          IN  /\ up_req' = [filename |-> filename, content |-> file_content]
              /\ up_res' = res
              /\ up_pc' = IF res.ok THEN "accepted" ELSE "rejected"
    /\ UNCHANGED url_vars
    /\ UNCHANGED cfg_vars
    /\ UNCHANGED page_vars

\* the response is sent; the next upload starts from scratch
UploadReturn ==
    /\ up_pc \in {"accepted", "rejected"}
    /\ up_pc' = "idle"
    /\ up_req' = NoUpload
    /\ up_res' = NoUpRes
    /\ UNCHANGED url_vars
    /\ UNCHANGED cfg_vars
    /\ UNCHANGED page_vars

-----------------------------------------------------------------------------
(* crypto_utils: Fernet, symbolically                                      *)
(*                                                                         *)
(* A string is a sequence of characters.  A Fernet token is written        *)
(* <<"gAAAAA", k, iv>> \o plaintext: the version/time-stamp header every   *)
(* token starts with, the key whose HMAC signs it, the random IV, and the  *)
(* encrypted plaintext.  Only the holder of k produces a token under k, so *)
(* strings typed by a user are never valid tokens under the process key.   *)

FERNET_HEADER == "gAAAAA"

CipherKeys == {"K1", "K2"}

IVs == {"iv1", "iv2"}

Fernet_encrypt(k, iv, data) == <<FERNET_HEADER, k, iv>> \o data

\* InvalidToken unless the string is a token signed under k
Fernet_decrypt(k, token) ==
    IF /\ Len(token) >= 3
       /\ token[1] = FERNET_HEADER
       /\ token[2] = k
       /\ token[3] \in IVs
    THEN [ok |-> TRUE, data |-> SubSeq(token, 4, Len(token))]
    ELSE [ok |-> FALSE, data |-> <<>>]

\* a new key generated for every call
encrypt_fresh_key(plaintext, iv) == Fernet_encrypt("Kfresh", iv, plaintext)

\* CryptoManager.encrypt
encrypt(plaintext, iv) == Fernet_encrypt(cipher_key, iv, plaintext)

Returned(value) == [raised |-> FALSE, value |-> value]
Raised          == [raised |-> TRUE, value |-> <<>>]

\* the exception passed on to the caller
decrypt_reraise(ciphertext) ==
    LET r == Fernet_decrypt(cipher_key, ciphertext)
    IN  IF r.ok THEN Returned(r.data) ELSE Raised

\* CryptoManager.decrypt: any exception returns the input unchanged
decrypt(ciphertext) ==
    LET r == Fernet_decrypt(cipher_key, ciphertext)
    IN  IF r.ok THEN Returned(r.data) ELSE Returned(ciphertext)

-----------------------------------------------------------------------------
(* Configuration store *)

API_KEY_FIELDS ==
    {"openai_api_key", "deepseek_api_key", "claude_api_key",
     "anthropic_api_key", "gemini_api_key"}

ConfigKeys == {"openai_api_key", "default_ai_model"}

ValueChars == {"k", "*"}

PlainValues == UNION { [1..n -> ValueChars] : n \in 0..MaxValueLen }

\* strings that look like tokens without being one under key k
TokenLike(k) ==
    { <<FERNET_HEADER, "k">> }
    \cup { Fernet_encrypt(other, "iv1", <<"k", "k">>) : other \in CipherKeys \ {k} }

\* what a settings request may carry
RequestValues(k) == PlainValues \cup TokenLike(k)

\* rows the table may hold when the process starts: unset, plain text from
\* before encryption, a token under a former key, a token under this key
LegacyValues(k) ==
    { <<>>, <<"k", "*", "k", "k">> }
    \cup TokenLike(k)
    \cup { Fernet_encrypt(k, "iv1", <<"k", "k">>) }

\* "********...<set>": the last three characters stand for the Chinese
\* word of the source
MASK == <<"*", "*", "*", "*", "*", "*", "*", "*", ".", ".", ".",
          "yi", "she", "zhi">>

\* the test for an empty value lost
store_value_encrypt_empty(key, value, iv) ==
    IF key \in API_KEY_FIELDS THEN encrypt(value, iv) ELSE value

\* configuration update: API keys are stored encrypted
store_value(key, value, iv) ==
    IF key \in API_KEY_FIELDS /\ value # <<>> THEN encrypt(value, iv) ELSE value

\* the stored value handed out as it is
get_config_value_no_decrypt(key) == Returned(store[key])

\* ai_service: the API key in use
get_config_value(key) ==
    IF store[key] # <<>> THEN decrypt(store[key]) ELSE Returned(<<>>)

LastN(str, n) == SubSeq(str, Max(1, Len(str) - n + 1), Len(str))

\* stars followed by the last four characters of the secret
get_config_for_display_last4(key) ==
    IF key \in API_KEY_FIELDS /\ store[key] # <<>>
    THEN <<"*", "*", "*", "*">> \o LastN(decrypt(store[key]).value, 4)
    ELSE store[key]

\* the mask left out
get_config_for_display_unmasked(key) == store[key]

\* configuration read for the settings page: API keys are masked
get_config_for_display(key) ==
    IF key \in API_KEY_FIELDS /\ store[key] # <<>> THEN MASK ELSE store[key]

NoOut == [op |-> "none", key |-> "", raised |-> FALSE, value |-> <<>>]

\* PUT of one configuration value
SetConfig ==
    /\ \E key \in ConfigKeys, value \in RequestValues(cipher_key), iv \in IVs :
          /\ store' = [store EXCEPT ![key] = store_value(key, value, iv)]
          /\ last_plain' = [last_plain EXCEPT ![key] = value]
          /\ written' = written \cup {key}
    /\ cfg_out' = NoOut
    /\ UNCHANGED cipher_key
    /\ UNCHANGED <<url_vars, up_vars, page_vars>>

\* the AI service reads a value for use
GetConfigValue ==
    /\ \E key \in ConfigKeys :
          LET r == get_config_value(key)
          IN  cfg_out' = [op |-> "value", key |-> key, raised |-> r.raised,
                          value |-> r.value]
    /\ UNCHANGED <<cipher_key, store, last_plain, written>>
    /\ UNCHANGED <<url_vars, up_vars, page_vars>>

\* the settings page reads a value for display
GetConfigForDisplay ==
    /\ \E key \in ConfigKeys :
          cfg_out' = [op |-> "display", key |-> key, raised |-> FALSE,
                      value |-> get_config_for_display(key)]
    /\ UNCHANGED <<cipher_key, store, last_plain, written>>
    /\ UNCHANGED <<url_vars, up_vars, page_vars>>

-----------------------------------------------------------------------------
(* Settings page (Settings.jsx) *)

GPT_4         == <<"g", "p", "t", "-", "4">>
DEEPSEEK_CHAT == <<"d", "e", "e", "p", "s", "e", "e", "k">>

\* useState('gpt-4'), useState('')
FormDefault(key) == IF key = "default_ai_model" THEN GPT_4 ELSE <<>>

\* what the user may put into a field: a key typed in, a model selected
FieldValues(key) ==
    IF key = "default_ai_model" THEN {GPT_4, DEEPSEEK_CHAT}
    ELSE {<<"s", "k", "-", "1">>, <<"s", "k", "-", "2">>}

NoResp == "none"

\* GET /api/configs: every value as the backend gives it for display
get_configs == [key \in ConfigKeys |-> get_config_for_display(key)]

\* the page is opened (the component mounts): useState initial values, and
\* the effect calls loadConfigs
SettingsOpen ==
    /\ ~st_saving
    /\ ~st_loading
    /\ st_form' = [key \in ConfigKeys |-> FormDefault(key)]
    /\ st_loading' = TRUE
    /\ st_loaded' = FALSE
    /\ st_edited' = {}
    /\ st_message' = "none"
    /\ UNCHANGED <<st_resp, st_saving>>
    /\ UNCHANGED server_vars
    /\ UNCHANGED pages_but_st

\* loadConfigs: data.x || default goes into the fields; a failed request
\* leaves them as they are
loadConfigs ==
    /\ st_loading
    /\ \/ /\ st_form' = [key \in ConfigKeys |->
                           IF get_configs[key] # <<>> THEN get_configs[key]
                           ELSE FormDefault(key)]
          /\ st_loaded' = TRUE
          /\ UNCHANGED st_message
       \/ /\ st_message' = "load failed"
          /\ UNCHANGED <<st_form, st_loaded>>
    /\ st_loading' = FALSE
    /\ UNCHANGED <<st_resp, st_saving, st_edited>>
    /\ UNCHANGED server_vars
    /\ UNCHANGED pages_but_st

\* onChange of a field: setOpenaiKey, setAiModel
SettingsEdit ==
    /\ ~st_loading
    /\ \E key \in ConfigKeys :
          \E value \in FieldValues(key) \ {st_form[key]} :
             /\ st_form' = [st_form EXCEPT ![key] = value]
             /\ st_edited' = st_edited \cup {key}
    /\ UNCHANGED <<st_loading, st_loaded, st_resp, st_saving, st_message>>
    /\ UNCHANGED server_vars
    /\ UNCHANGED pages_but_st

\* handleSave up to the await: every field goes into the PUT, and the
\* backend stores each value it receives; a request that fails changes
\* nothing
handleSave ==
    /\ ~st_saving
    /\ st_saving' = TRUE
    /\ \/ /\ \E ivs \in [ConfigKeys -> IVs] :
                store' = [key \in ConfigKeys |->
                             store_value(key, st_form[key], ivs[key])]
          /\ last_plain' = st_form
          /\ written' = ConfigKeys
          /\ cfg_out' = NoOut
          /\ st_resp' = "ok"
       \/ /\ st_resp' = "error"
          /\ UNCHANGED <<store, last_plain, written, cfg_out>>
    /\ UNCHANGED cipher_key
    /\ UNCHANGED <<st_form, st_loading, st_loaded, st_edited, st_message>>
    /\ UNCHANGED <<url_vars, up_vars>>
    /\ UNCHANGED pages_but_st

\* handleSave after the await: the message, and finally setSaving(false)
handleSaveDone ==
    /\ st_saving
    /\ st_message' = IF st_resp = "ok" THEN "saved" ELSE "save failed"
    /\ st_resp' = NoResp
    /\ st_saving' = FALSE
    /\ UNCHANGED <<st_form, st_loading, st_loaded, st_edited>>
    /\ UNCHANGED server_vars
    /\ UNCHANGED pages_but_st

-----------------------------------------------------------------------------
(* Home page: batch upload of PDF files (Home.jsx, api.js) *)

MaxFiles == 3

GOOD_PDF ==
    [filename |-> <<"r", ".", "p", "d", "f">>,
     content |-> [head |-> <<"%", "P", "D", "F", "-", "1", ".", "4">>,
                  tail |-> <<"%", "%", "E", "O", "F">>, size |-> 14]]

\* an executable renamed to .pdf
SPOOFED_PDF ==
    [filename |-> <<"r", ".", "p", "d", "f">>,
     content |-> [head |-> <<"M", "Z">>, tail |-> <<>>, size |-> 3]]

\* a PDF larger than the endpoint takes
HUGE_PDF ==
    [filename |-> <<"r", ".", "p", "d", "f">>,
     content |-> [head |-> <<"%", "P", "D", "F", "-", "1", ".", "4">>,
                  tail |-> <<"%", "%", "E", "O", "F">>,
                  size |-> MAX_SIZE_MB * BytesPerMB + 1]]

SelectableFiles == {GOOD_PDF, SPOOFED_PDF, HUGE_PDF}

FileLists == UNION { [1..n -> SelectableFiles] : n \in 0..MaxFiles }

\* POST /api/materials/pdf as axios sees it: status 400 when
\* validate_upload_file raises, else status 200 with a body whose code the
\* processing that follows decides, or no answer within the timeout
UploadStatuses(file) ==
    LET res == validate_upload_file(file.filename, file.content, MAX_SIZE_MB,
                                    {<<".", "p", "d", "f">>})
    IN  IF ~res.ok THEN { [status |-> 400, code |-> 400] }
        ELSE { [status |-> 200, code |-> 200], [status |-> 200, code |-> 500],
               [status |-> 0, code |-> 0] }

\* the response interceptor: the body of a 2xx answer, a rejected promise
\* for everything else
interceptors_response(answer) ==
    IF answer.status \in 200..299
    THEN [rejected |-> FALSE, code |-> answer.code]
    ELSE [rejected |-> TRUE, code |-> 0]

NoFinal == [message |-> "none", count |-> 0]

\* the click on the button with the files selected so far; with no file
\* selected the handler returns at once
handleSubmitPDF ==
    /\ bu_pc # "uploading"
    /\ \E files \in FileLists :
          /\ pdfFiles' = files
          /\ IF Len(files) = 0
             THEN /\ bu_final' = [message |-> "select a file", count |-> 0]
                  /\ bu_pc' = "done"
             ELSE /\ bu_final' = NoFinal
                  /\ bu_pc' = "uploading"
          /\ bu_sent' = [i \in 1..Len(files) |-> 0]
    /\ bu_i' = 1
    /\ successCount' = 0
    /\ bu_accepted' = 0
    /\ bu_failed_shown' = {}
    /\ UNCHANGED server_vars
    /\ UNCHANGED pages_but_bu

\* one turn of the loop: the file is sent and the answer awaited.  A
\* rejected promise leaves the loop for the catch block and finally.
UploadOneFile ==
    /\ bu_pc = "uploading"
    /\ bu_i <= Len(pdfFiles)
    /\ \E answer \in UploadStatuses(pdfFiles[bu_i]) :
          LET response == interceptors_response(answer)
          IN  /\ bu_sent' = [bu_sent EXCEPT ![bu_i] = @ + 1]
              /\ bu_accepted' = IF answer.status = 200 /\ answer.code = 200
                                THEN bu_accepted + 1 ELSE bu_accepted
              /\ IF response.rejected
                 THEN /\ bu_final' = [message |-> "save failed", count |-> 0]
                      /\ bu_pc' = "done"
                      /\ UNCHANGED <<bu_i, successCount, bu_failed_shown>>
                 ELSE /\ bu_i' = bu_i + 1
                      /\ IF response.code = 200
                         THEN /\ successCount' = successCount + 1
                              /\ UNCHANGED bu_failed_shown
                         ELSE /\ bu_failed_shown' = bu_failed_shown \cup {bu_i}
                              /\ UNCHANGED successCount
                      /\ UNCHANGED <<bu_final, bu_pc>>
    /\ UNCHANGED pdfFiles
    /\ UNCHANGED server_vars
    /\ UNCHANGED pages_but_bu

\* after the loop: the summary message; handleClear empties the form when
\* a file went through
UploadSummary ==
    /\ bu_pc = "uploading"
    /\ bu_i > Len(pdfFiles)
    /\ IF successCount > 0
       THEN /\ bu_final' = [message |-> "uploaded", count |-> successCount]
            /\ pdfFiles' = <<>>
       ELSE /\ bu_final' = [message |-> "all failed", count |-> 0]
            /\ UNCHANGED pdfFiles
    /\ bu_pc' = "done"
    /\ UNCHANGED <<bu_i, successCount, bu_sent, bu_accepted, bu_failed_shown>>
    /\ UNCHANGED server_vars
    /\ UNCHANGED pages_but_bu

-----------------------------------------------------------------------------
(* Topics page (Topics.jsx) *)

MaxPage == 3

\* requests and timers that may be pending at a time
MaxPending == 2

Keywords == {"", "ai", "pdf"}

NoTag == "null"

Tags == {NoTag, "tech"}

\* params of topicApi.getList: an empty keyword sends no search parameter,
\* written search = ""
Params(p, keyword, tag) == [page |-> p, search |-> keyword, tags |-> tag]

NoParams == [page |-> 0, search |-> "", tags |-> NoTag]

Pending == Cardinality(tp_requests) + Cardinality(tp_timers)

\* loadTopics up to the await, run by a render that saw (p, keyword, tag)
loadTopics(p, keyword, tag) == tp_requests \cup {Params(p, keyword, tag)}

\* the first request since handleSearch, once one is sent
FirstSent(params) ==
    IF tp_searched /\ tp_first = NoParams THEN params ELSE tp_first

\* the component mounts: the effect runs loadTopics
TopicsMount ==
    /\ ~tp_mounted
    /\ tp_mounted' = TRUE
    /\ tp_requests' = loadTopics(tp_page, searchKeyword, selectedTag)
    /\ UNCHANGED <<tp_page, searchKeyword, selectedTag, tp_timers, tp_shown,
                   tp_searched, tp_first, tp_failed>>
    /\ UNCHANGED server_vars
    /\ UNCHANGED pages_but_tp

\* handleSearch(value): the two setters, and a timer whose callback calls
\* the loadTopics of the render the handler belongs to; the render that
\* follows runs the effect when page changed
handleSearch ==
    /\ tp_mounted
    /\ Pending < MaxPending
    /\ \E value \in Keywords :
          /\ searchKeyword' = value
          /\ tp_page' = 1
          /\ tp_timers' = tp_timers
                             \cup {Params(tp_page, searchKeyword, selectedTag)}
          /\ IF tp_page # 1
             THEN /\ tp_requests' = loadTopics(1, value, selectedTag)
                  /\ tp_first' = Params(1, value, selectedTag)
             ELSE /\ UNCHANGED tp_requests
                  /\ tp_first' = NoParams
    /\ tp_searched' = TRUE
    /\ tp_failed' = FALSE
    /\ UNCHANGED <<tp_mounted, selectedTag, tp_shown>>
    /\ UNCHANGED server_vars
    /\ UNCHANGED pages_but_tp

\* 100 ms later: the callback of a timer runs its loadTopics
TopicsTimeout ==
    /\ \E t \in tp_timers :
          /\ tp_timers' = tp_timers \ {t}
          /\ tp_requests' = loadTopics(t.page, t.search, t.tags)
          /\ tp_first' = FirstSent(t)
    /\ UNCHANGED <<tp_mounted, tp_page, searchKeyword, selectedTag, tp_shown,
                   tp_searched, tp_failed>>
    /\ UNCHANGED server_vars
    /\ UNCHANGED pages_but_tp

\* handleTagFilter(tag); selectedTag changes, so the effect runs
handleTagFilter ==
    /\ tp_mounted
    /\ Pending < MaxPending
    /\ \E tag \in Tags \ {NoTag} :
          LET next == IF selectedTag = tag THEN NoTag ELSE tag
          IN  /\ selectedTag' = next
              /\ tp_requests' = loadTopics(1, searchKeyword, next)
    /\ tp_page' = 1
    /\ tp_searched' = FALSE
    /\ tp_first' = NoParams
    /\ tp_failed' = FALSE
    /\ UNCHANGED <<tp_mounted, searchKeyword, tp_timers, tp_shown>>
    /\ UNCHANGED server_vars
    /\ UNCHANGED pages_but_tp

\* handlePageChange(newPage), for a page other than the current one
handlePageChange ==
    /\ tp_mounted
    /\ Pending < MaxPending
    /\ \E newPage \in (1..MaxPage) \ {tp_page} :
          /\ tp_page' = newPage
          /\ tp_requests' = loadTopics(newPage, searchKeyword, selectedTag)
    /\ tp_searched' = FALSE
    /\ tp_first' = NoParams
    /\ tp_failed' = FALSE
    /\ UNCHANGED <<tp_mounted, searchKeyword, selectedTag, tp_timers, tp_shown>>
    /\ UNCHANGED server_vars
    /\ UNCHANGED pages_but_tp

\* loadTopics after the await: an answer with code 200 replaces the list,
\* any other outcome leaves it
TopicsResponse ==
    /\ \E r \in tp_requests :
          /\ tp_requests' = tp_requests \ {r}
          /\ \/ /\ tp_shown' = r
                /\ UNCHANGED tp_failed
             \/ /\ tp_failed' = TRUE
                /\ UNCHANGED tp_shown
    /\ UNCHANGED <<tp_mounted, tp_page, searchKeyword, selectedTag, tp_timers,
                   tp_searched, tp_first>>
    /\ UNCHANGED server_vars
    /\ UNCHANGED pages_but_tp

-----------------------------------------------------------------------------
(* Extension popup: extraction from a link (popup.js) *)

\* tabs one popup session creates
MaxTabs == 4

\* the value of the extractUrl field
ExtractUrls == {"", "not a link", "https://example.com/post"}

\* /^https?:\/\/.+\..+/
urlPattern_test(extractUrl) == extractUrl = "https://example.com/post"

\* extractFromUrl up to chrome.tabs.create: saveConfig, the two checks of
\* the field, then the tab.  An exception of saveConfig or
\* chrome.tabs.create goes to the catch block.
extractFromUrl ==
    /\ ex_pc \in {"idle", "ended"}
    /\ ex_next <= MaxTabs
    /\ \E extractUrl \in ExtractUrls, thrown \in {"none", "saveConfig", "create"} :
          IF thrown = "saveConfig" \/ extractUrl = ""
             \/ ~urlPattern_test(extractUrl) \/ thrown = "create"
          THEN /\ ex_shown' = "error"
               /\ ex_pc' = "ended"
               /\ ex_tab' = 0
               /\ UNCHANGED <<ex_status, ex_open, ex_next>>
          ELSE /\ ex_shown' = "loading"
               /\ ex_tab' = ex_next
               /\ ex_open' = ex_open \cup {ex_next}
               /\ ex_next' = ex_next + 1
               /\ ex_status' = "loading"
               /\ ex_pc' = "waiting"
    /\ UNCHANGED server_vars
    /\ UNCHANGED pages_but_ex

\* the browser finishes loading the tab
TabComplete ==
    /\ ex_pc = "waiting"
    /\ ex_tab \in ex_open
    /\ ex_status = "loading"
    /\ ex_status' = "complete"
    /\ UNCHANGED <<ex_pc, ex_tab, ex_open, ex_next, ex_shown>>
    /\ UNCHANGED server_vars
    /\ UNCHANGED pages_but_ex

\* the user closes a temporary tab by hand
UserClosesTab ==
    /\ \E t \in ex_open : ex_open' = ex_open \ {t}
    /\ UNCHANGED <<ex_pc, ex_tab, ex_status, ex_next, ex_shown>>
    /\ UNCHANGED server_vars
    /\ UNCHANGED pages_but_ex

\* waitForTabLoad: checkComplete finds the tab complete and the promise
\* resolves a second later.  For a tab that is gone the callback receives
\* no tab, tab.status throws inside the callback and the promise stays
\* pending.  A tab still loading is looked at again after 500 ms.
waitForTabLoad ==
    /\ ex_pc = "waiting"
    /\ IF ex_tab \notin ex_open THEN ex_pc' = "pending"
       ELSE /\ ex_status = "complete"
            /\ ex_pc' = "messaging"
    /\ UNCHANGED <<ex_tab, ex_status, ex_open, ex_next, ex_shown>>
    /\ UNCHANGED server_vars
    /\ UNCHANGED pages_but_ex

\* what chrome.tabs.sendMessage gives: the answer of the content script, or
\* a rejected promise when nothing in the tab receives the message
MessageOutcomes ==
    IF ex_tab \in ex_open
    THEN {"success", "unsuccessful", "undefined", "rejected"}
    ELSE {"rejected"}

\* extractFromUrl from chrome.tabs.sendMessage on: both branches of the if
\* remove the tab, the catch block shows the error
extractFromUrlMessage ==
    /\ ex_pc = "messaging"
    /\ \E response \in MessageOutcomes :
          IF response = "rejected"
          THEN /\ ex_shown' = "error"
               /\ UNCHANGED ex_open
          ELSE /\ ex_shown' = IF response = "success" THEN "result" ELSE "error"
               /\ ex_open' = ex_open \ {ex_tab}
    /\ ex_pc' = "ended"
    /\ UNCHANGED <<ex_tab, ex_status, ex_next>>
    /\ UNCHANGED server_vars
    /\ UNCHANGED pages_but_ex

-----------------------------------------------------------------------------
(* Content script: extraction with OCR (content.js) *)

MaxImages == 3

\* texts are atoms; joining with two newlines keeps the pieces apart, so a
\* joined text is the sequence of its pieces
PageTexts == {"", "page text"}

ImageLists == { [i \in 1..n |-> i] : n \in 0..MaxImages }

NonEmpty(t) == t # ""

\* [...].filter(t => t).join('\n\n')
join(texts) == SelectSeq(texts, NonEmpty)

\* one entry of results as /api/ocr/batch gives it for image i
OcrEntries(i) ==
    { [index |-> i, text |-> "image text", success |-> TRUE],
      [index |-> i, text |-> "", success |-> TRUE],
      [index |-> i, text |-> "", success |-> FALSE],
      [index |-> i, text |-> "engine error", success |-> FALSE] }

\* ways the request ends: results, or an Error with its message
OcrFailures == {"HTTP 500", "bad format", "Failed to fetch"}

\* the catch block of performOCR: one entry per image, its text the error
placeholders(images, message) ==
    [i \in 1..Len(images) |->
        [index |-> i, text |-> "OCR failed: " \o message, success |-> FALSE]]

PlaceholderTexts == { "OCR failed: " \o message : message \in OcrFailures }

\* lines 40-45: the original text, then the text of every entry of
\* ocrResults that has one
combine(originalText, ocrResults) ==
    join(<<originalText>> \o join([i \in 1..Len(ocrResults) |-> ocrResults[i].text]))

NoResult == [originalText |-> "", images |-> <<>>, ocrResults |-> <<>>,
             combinedText |-> <<>>]

\* extractContent up to the OCR: text and images of the page; without OCR
\* the texts are combined at once
extractContent ==
    /\ oc_pc = "idle"
    /\ \E useOCR \in BOOLEAN, text \in PageTexts, images \in ImageLists :
          /\ oc_useOCR' = useOCR
          /\ IF useOCR /\ Len(images) > 0
             THEN /\ oc_result' = [NoResult EXCEPT !.originalText = text,
                                                  !.images = images]
                  /\ oc_pc' = "ocr"
             ELSE /\ oc_result' = [NoResult EXCEPT
                                     !.originalText = text,
                                     !.images = images,
                                     !.combinedText = combine(text, <<>>)]
                  /\ oc_pc' = "done"
    /\ oc_request' = "none"
    /\ UNCHANGED server_vars
    /\ UNCHANGED pages_but_oc

\* performOCR, and the rest of extractContent with what it returns
performOCR ==
    /\ oc_pc = "ocr"
    /\ \/ \E results \in [1..Len(oc_result.images) -> UNION {OcrEntries(i) : i \in 1..MaxImages}] :
             /\ \A i \in 1..Len(results) : results[i].index = i
             /\ oc_request' = "ok"
             /\ oc_result' = [oc_result EXCEPT
                     !.ocrResults = results,
                     !.combinedText = combine(oc_result.originalText, results)]
       \/ \E message \in OcrFailures :
             LET results == placeholders(oc_result.images, message)
             IN  /\ oc_request' = "failed"
                 /\ oc_result' = [oc_result EXCEPT
                        !.ocrResults = results,
                        !.combinedText = combine(oc_result.originalText, results)]
    /\ oc_pc' = "done"
    /\ UNCHANGED oc_useOCR
    /\ UNCHANGED server_vars
    /\ UNCHANGED pages_but_oc

\* the result goes back to the popup
ContentReturn ==
    /\ oc_pc = "done"
    /\ oc_pc' = "idle"
    /\ oc_result' = NoResult
    /\ oc_request' = "none"
    /\ oc_useOCR' = FALSE
    /\ UNCHANGED server_vars
    /\ UNCHANGED pages_but_oc

-----------------------------------------------------------------------------
(* Materials page (Materials.jsx) in front of the list endpoint *)

\* materials the server holds at the start; more than one page of them
MaxMaterials == 52

\* pages the user loads one after the other
MaxLoads == 3

\* useState(50)
perPage == 50

\* the cards the user clicks on: two of the first page, one of the second
ClickedIds == {1, 2, perPage + 1}

\* sample data: every second material comes from a PDF, every third has
\* the keyword "ai" in its title
source_type(id) == IF id % 2 = 0 THEN "pdf" ELSE "text"

includes(id, search) == search = "ai" /\ id % 3 = 0

NoFilter == "undefined"

SourceFilters == {NoFilter, "pdf", "text"}

MaterialKeywords == {"", "ai"}

\* Array.prototype.slice(start, end): a negative index counts from the end,
\* an index past the end is the end
slice(array, start, end) ==
    LET Index(i) == IF i < 0 THEN Max(Len(array) + i, 0) ELSE Min(i, Len(array))
    IN  SubSeq(array, Index(start) + 1, Index(end))

Range(array) == { array[i] : i \in 1..Len(array) }

\* GET /api/materials: the materials that pass the filters, and the page
\* asked for
getList(db, p, per_page, search, filter) ==
    LET Match(id) == /\ (search # "" => includes(id, search))
                     /\ (filter # NoFilter => source_type(id) = filter)
        filtered == SelectSeq(db, Match)
    IN  [items |-> slice(filtered, (p - 1) * per_page, (p - 1) * per_page + per_page),
         total |-> Len(filtered)]

\* what one call of loadMaterials with (p, search, filter) may receive
\* from a server holding db: the
\* answer with code 200, or a failure
loadMaterials(db, p, search, filter) ==
    { [ok |-> TRUE, data |-> getList(db, p, perPage, search, filter)],
      [ok |-> FALSE, data |-> [items |-> <<>>, total |-> 0]] }

\* setMaterials(items), setTotal(total || items.length); a failure leaves
\* the list
Show(response) ==
    IF response.ok
    THEN /\ materials' = response.data.items
         /\ mt_total' = IF response.data.total # 0 THEN response.data.total
                         ELSE Len(response.data.items)
    ELSE UNCHANGED <<materials, mt_total>>

\* the component mounts: the effect runs loadMaterials
MaterialsMount ==
    /\ ~mt_mounted
    /\ mt_mounted' = TRUE
    /\ \E response \in loadMaterials(mt_db, mt_page, mt_keyword, sourceFilter) :
          Show(response)
    /\ UNCHANGED <<mt_db, mt_page, mt_keyword, sourceFilter, selectedIds>>
    /\ UNCHANGED server_vars
    /\ UNCHANGED pages_but_mt

\* handleLoadMore: the next page; page changes, so the effect runs
handleLoadMore ==
    /\ mt_mounted
    /\ Len(materials) < mt_total
    /\ mt_page < MaxLoads
    /\ mt_page' = mt_page + 1
    /\ \E response \in loadMaterials(mt_db, mt_page + 1, mt_keyword, sourceFilter) :
          Show(response)
    /\ UNCHANGED <<mt_db, mt_mounted, mt_keyword, sourceFilter, selectedIds>>
    /\ UNCHANGED server_vars
    /\ UNCHANGED pages_but_mt

\* the search field: onChange, and handleSearch on enter.  handleSearch
\* calls the loadMaterials of its own render, which has the page of
\* before; when page changes the effect loads as well, and either answer
\* may be the one that stays.
handleSearchMaterials ==
    /\ mt_mounted
    /\ \E value \in MaterialKeywords :
          /\ mt_keyword' = value
          /\ \E response \in loadMaterials(mt_db, mt_page, value, sourceFilter)
                   \cup (IF mt_page # 1
                         THEN loadMaterials(mt_db, 1, value, sourceFilter) ELSE {}) :
                Show(response)
    /\ mt_page' = 1
    /\ UNCHANGED <<mt_db, mt_mounted, sourceFilter, selectedIds>>
    /\ UNCHANGED server_vars
    /\ UNCHANGED pages_but_mt

\* the source filter: onChange={setSourceFilter}; the effect runs
setSourceFilter ==
    /\ mt_mounted
    /\ \E filter \in SourceFilters \ {sourceFilter} :
          /\ sourceFilter' = filter
          /\ \E response \in loadMaterials(mt_db, mt_page, mt_keyword, filter) :
                Show(response)
    /\ UNCHANGED <<mt_db, mt_mounted, mt_page, mt_keyword, selectedIds>>
    /\ UNCHANGED server_vars
    /\ UNCHANGED pages_but_mt

\* handleSelectAll(e)
handleSelectAll ==
    /\ mt_mounted
    /\ \E checked \in BOOLEAN :
          selectedIds' = IF checked THEN Range(materials) ELSE {}
    /\ UNCHANGED <<mt_db, mt_mounted, materials, mt_total, mt_page, mt_keyword,
                   sourceFilter>>
    /\ UNCHANGED server_vars
    /\ UNCHANGED pages_but_mt

\* handleSelectOne(id), for the card of a material on display
handleSelectOne ==
    /\ mt_mounted
    /\ \E id \in Range(materials) \cap ClickedIds :
          selectedIds' = IF id \in selectedIds THEN selectedIds \ {id}
                         ELSE selectedIds \cup {id}
    /\ UNCHANGED <<mt_db, mt_mounted, materials, mt_total, mt_page, mt_keyword,
                   sourceFilter>>
    /\ UNCHANGED server_vars
    /\ UNCHANGED pages_but_mt

\* DELETE /api/materials/:id
Without(db, ids) ==
    LET Kept(id) == id \notin ids
    IN  SelectSeq(db, Kept)

\* handleDeleteMaterial(materialId): on code 200 the material leaves the
\* list and the selection
handleDeleteMaterial ==
    /\ mt_mounted
    /\ \E materialId \in Range(materials) \cap ClickedIds :
          \/ /\ materialId \in Range(mt_db)
             /\ mt_db' = Without(mt_db, {materialId})
             /\ materials' = Without(materials, {materialId})
             /\ mt_total' = mt_total - 1
             /\ selectedIds' = selectedIds \ {materialId}
          \/ UNCHANGED <<mt_db, materials, mt_total, selectedIds>>
    /\ UNCHANGED <<mt_mounted, mt_page, mt_keyword, sourceFilter>>
    /\ UNCHANGED server_vars
    /\ UNCHANGED pages_but_mt

\* handleBatchDelete: one DELETE per selected id; a material the server no
\* longer holds gives 404, and the requests may fail altogether.  With at
\* least one success the selection is emptied and the list loaded again.
\* (Batches are of the size of a hand-made selection.)
handleBatchDelete ==
    /\ mt_mounted
    /\ selectedIds # {}
    /\ Cardinality(selectedIds) <= Cardinality(ClickedIds)
    /\ \E reachable \in BOOLEAN :
          LET deleted == IF reachable THEN selectedIds \cap Range(mt_db) ELSE {}
              db == Without(mt_db, deleted)
          IN  /\ mt_db' = db
              /\ IF deleted # {}
                 THEN /\ selectedIds' = {}
                      /\ \E response \in loadMaterials(db, mt_page, mt_keyword,
                                                        sourceFilter) :
                            Show(response)
                 ELSE UNCHANGED <<selectedIds, materials, mt_total>>
    /\ UNCHANGED <<mt_mounted, mt_page, mt_keyword, sourceFilter>>
    /\ UNCHANGED server_vars
    /\ UNCHANGED pages_but_mt

\* handleBatchSaveTags: material_ids: selectedIds goes to the server; on
\* code 200 the selection is emptied
handleBatchSaveTags ==
    /\ mt_mounted
    /\ selectedIds # {}
    /\ \/ selectedIds' = {}
       \/ UNCHANGED selectedIds
    /\ UNCHANGED <<mt_db, mt_mounted, materials, mt_total, mt_page, mt_keyword,
                   sourceFilter>>
    /\ UNCHANGED server_vars
    /\ UNCHANGED pages_but_mt

-----------------------------------------------------------------------------
(* Usage statistics (usage-stats.js) *)

\* calls of recordUsage in one run
MaxCalls == 3

\* days the run spans
MaxDays == 2

\* the three models of the table, and one it does not list
Models == {"gpt-4", "gpt-3.5-turbo", "deepseek-chat", "claude-3"}

TokenCounts == {0, 1000}

Zero == [requests |-> 0, tokens |-> 0, cost |-> 0]

\* the object literal of line 7
usageStats0 ==
    [totalRequests |-> 0, totalTokens |-> 0, totalCost |-> 0,
     byModel |-> [m \in {"gpt-4", "gpt-3.5-turbo", "deepseek-chat"} |-> Zero],
     dailyUsage |-> <<>>]

\* price per token, in units of 10^-8 dollar
pricing ==
    [m \in {"gpt-4", "gpt-3.5-turbo", "deepseek-chat"} |->
        CASE m = "gpt-4"         -> [input |-> 3000, output |-> 6000]
          [] m = "gpt-3.5-turbo" -> [input |-> 100, output |-> 200]
          [] m = "deepseek-chat" -> [input |-> 14, output |-> 28]]

calculateCost(model, inputTokens, outputTokens) ==
    LET modelPricing == IF model \in DOMAIN pricing THEN pricing[model]
                        ELSE pricing["gpt-3.5-turbo"]
    IN  inputTokens * modelPricing.input + outputTokens * modelPricing.output

\* table[key] after `if (!table[key]) table[key] = {...}`
Entry(table, key) == IF key \in DOMAIN table THEN table[key] ELSE Zero

Add(entry, tokens, cost) ==
    [requests |-> entry.requests + 1, tokens |-> entry.tokens + tokens,
     cost |-> entry.cost + cost]

Put(table, key, entry) ==
    [k \in DOMAIN table \cup {key} |-> IF k = key THEN entry ELSE table[k]]

\* a model the table does not list is counted under gpt-3.5-turbo, as its
\* price is
recordUsage_fallback_model(stats, today, model, inputTokens, outputTokens) ==
    LET cost == calculateCost(model, inputTokens, outputTokens)
        totalTokens == inputTokens + outputTokens
        name == IF model \in DOMAIN stats.byModel THEN model ELSE "gpt-3.5-turbo"
    IN  [stats EXCEPT
           !.totalRequests = @ + 1,
           !.totalTokens = @ + totalTokens,
           !.totalCost = @ + cost,
           !.byModel = Put(@, name, Add(Entry(@, name), totalTokens, cost)),
           !.dailyUsage = Put(@, today, Add(Entry(@, today), totalTokens, cost))]

\* the update of dailyUsage left out
recordUsage_no_daily(stats, today, model, inputTokens, outputTokens) ==
    LET cost == calculateCost(model, inputTokens, outputTokens)
        totalTokens == inputTokens + outputTokens
    IN  [stats EXCEPT
           !.totalRequests = @ + 1,
           !.totalTokens = @ + totalTokens,
           !.totalCost = @ + cost,
           !.byModel = Put(@, model, Add(Entry(@, model), totalTokens, cost))]

\* usageStats after recordUsage(model, inputTokens, outputTokens) on day
\* today
recordUsage(stats, today, model, inputTokens, outputTokens) ==
    LET cost == calculateCost(model, inputTokens, outputTokens)
        totalTokens == inputTokens + outputTokens
    IN  [stats EXCEPT
           !.totalRequests = @ + 1,
           !.totalTokens = @ + totalTokens,
           !.totalCost = @ + cost,
           !.byModel = Put(@, model, Add(Entry(@, model), totalTokens, cost)),
           !.dailyUsage = Put(@, today, Add(Entry(@, today), totalTokens, cost))]

\* localStorage.getItem gives null for an item never set
NoItem == [saved |-> FALSE, item |-> usageStats0]

\* JSON.parse(JSON.stringify(stats)) gives stats back
setItem(stats) == [saved |-> TRUE, item |-> stats]

\* the saved statistics when there are any, else the object in memory
getUsageStats == IF localStorage.saved THEN localStorage.item ELSE usageStats

\* a call of recordUsage: the object is updated and saved
RecordUsage ==
    /\ us_calls < MaxCalls
    /\ \E model \in Models, inputTokens \in TokenCounts, outputTokens \in TokenCounts :
          LET stats == recordUsage(usageStats, us_today, model, inputTokens,
                                   outputTokens)
          IN  /\ usageStats' = stats
              /\ localStorage' = setItem(stats)
              /\ us_models' = us_models \cup {model}
    /\ us_calls' = us_calls + 1
    /\ UNCHANGED us_today
    /\ UNCHANGED server_vars
    /\ UNCHANGED pages_but_us

\* the page is loaded again: the script runs from the top, localStorage
\* stays
Reload ==
    /\ usageStats # usageStats0
    /\ usageStats' = usageStats0
    /\ us_models' = {}
    /\ UNCHANGED <<localStorage, us_today, us_calls>>
    /\ UNCHANGED server_vars
    /\ UNCHANGED pages_but_us

\* midnight passes
NextDay ==
    /\ us_today < MaxDays
    /\ us_today' = us_today + 1
    /\ UNCHANGED <<usageStats, localStorage, us_calls, us_models>>
    /\ UNCHANGED server_vars
    /\ UNCHANGED pages_but_us

-----------------------------------------------------------------------------
(* Mock server (mock-server.js): the list endpoints *)

\* topics and materials created in one run
MaxItems == 3

\* per_page = 20 when the query has none
DEFAULT_PER_PAGE == 20

QueryPages == 0..2

QueryPerPages == {1, 2, DEFAULT_PER_PAGE}

TopicTags == {"tech", "life"}

\* title.includes(search) || refined_content.includes(search), for the
\* titles above and the searches "" and "ai"
text_includes(title, search) == search = "" \/ (search = "ai" /\ title = "ai news")

TopicSearches == {"", "ai"}

\* title and tags of the topics created
TopicBodies ==
    { [title |-> "ai news", tags |-> {"tech", "life"}],
      [title |-> "gardening", tags |-> {"life"}] }

\* pages counted from zero
getTopics_first_page_zero(topics, p, per_page, tags, search) ==
    LET HasTag(t) == tags = "" \/ tags \in t.tags
        Found(t) == search = "" \/ text_includes(t.title, search)
        filtered == SelectSeq(SelectSeq(topics, HasTag), Found)
        start == p * per_page
        end == start + per_page
    IN  [topics |-> slice(filtered, start, end), total |-> Len(filtered),
         page |-> p, per_page |-> per_page]

\* GET /api/topics
getTopics(topics, p, per_page, tags, search) ==
    LET HasTag(t) == tags = "" \/ tags \in t.tags
        Found(t) == search = "" \/ text_includes(t.title, search)
        filtered == SelectSeq(SelectSeq(topics, HasTag), Found)
        start == (p - 1) * per_page
        end == start + per_page
    IN  [topics |-> slice(filtered, start, end), total |-> Len(filtered),
         page |-> p, per_page |-> per_page]

\* mk_query and mk_response hold the last list request and its response,
\* and neither once another request has been served
NoQuery == [path |-> "none", page |-> 0, per_page |-> 0, filter |-> "",
            search |-> ""]

NoList == [items |-> <<>>, total |-> 0]

\* POST /api/topics
CreateTopic ==
    /\ topicIdCounter <= MaxItems
    /\ \E body \in TopicBodies :
          mk_topics' = Append(mk_topics, [id |-> topicIdCounter,
                                          title |-> body.title,
                                          tags |-> body.tags])
    /\ topicIdCounter' = topicIdCounter + 1
    /\ mk_query' = NoQuery
    /\ mk_response' = NoList
    /\ UNCHANGED <<mk_materials, materialIdCounter>>
    /\ UNCHANGED server_vars
    /\ UNCHANGED pages_but_mk

\* DELETE /api/topics/:id, for a topic the server holds
DeleteTopic ==
    /\ \E i \in 1..Len(mk_topics) :
          mk_topics' = SubSeq(mk_topics, 1, i - 1)
                          \o SubSeq(mk_topics, i + 1, Len(mk_topics))
    /\ mk_query' = NoQuery
    /\ mk_response' = NoList
    /\ UNCHANGED <<topicIdCounter, mk_materials, materialIdCounter>>
    /\ UNCHANGED server_vars
    /\ UNCHANGED pages_but_mk

\* POST /api/materials/text, /api/materials/pdf
CreateMaterial ==
    /\ materialIdCounter <= MaxItems
    /\ mk_materials' = Append(mk_materials, materialIdCounter)
    /\ materialIdCounter' = materialIdCounter + 1
    /\ mk_query' = NoQuery
    /\ mk_response' = NoList
    /\ UNCHANGED <<mk_topics, topicIdCounter>>
    /\ UNCHANGED server_vars
    /\ UNCHANGED pages_but_mk

\* a GET /api/topics
ListTopics ==
    /\ \E p \in QueryPages, per_page \in QueryPerPages,
          tags \in TopicTags \cup {""}, search \in TopicSearches :
          LET data == getTopics(mk_topics, p, per_page, tags, search)
          IN  /\ mk_query' = [path |-> "/api/topics", page |-> p,
                              per_page |-> per_page, filter |-> tags,
                              search |-> search]
              /\ mk_response' = [items |-> data.topics, total |-> data.total]
    /\ UNCHANGED <<mk_topics, topicIdCounter, mk_materials, materialIdCounter>>
    /\ UNCHANGED server_vars
    /\ UNCHANGED pages_but_mk

\* a GET /api/materials
ListMaterials ==
    /\ \E p \in QueryPages, per_page \in QueryPerPages,
          filter \in SourceFilters, search \in MaterialKeywords :
          LET data == getList(mk_materials, p, per_page, search, filter)
          IN  /\ mk_query' = [path |-> "/api/materials", page |-> p,
                              per_page |-> per_page, filter |-> filter,
                              search |-> search]
              /\ mk_response' = [items |-> data.items, total |-> data.total]
    /\ UNCHANGED <<mk_topics, topicIdCounter, mk_materials, materialIdCounter>>
    /\ UNCHANGED server_vars
    /\ UNCHANGED pages_but_mk

-----------------------------------------------------------------------------
(* Specifications *)

InitUrl ==
    /\ \E extra \in ExtraDomainChoices :
          allowed_domains = DEFAULT_ALLOWED_DOMAINS \cup extra
    /\ dev_mode \in BOOLEAN
    /\ dl_pc = "idle"
    /\ dl_url = NoUrl
    /\ dl_dns = NoAnswer
    /\ dl_val = NoVal
    /\ dl_conn = NoAddr

InitUp ==
    /\ up_pc = "idle"
    /\ up_req = NoUpload
    /\ up_res = NoUpRes

\* no configuration traffic
InitCfgIdle ==
    /\ cipher_key = "K1"
    /\ store = [key \in ConfigKeys |-> <<>>]
    /\ last_plain = [key \in ConfigKeys |-> <<>>]
    /\ written = {}
    /\ cfg_out = NoOut

\* the key comes from ENCRYPTION_KEY or the machine id; the table holds
\* whatever earlier versions left in it
InitCfg ==
    /\ cipher_key \in CipherKeys
    /\ store \in [ConfigKeys -> LegacyValues(cipher_key)]
    /\ last_plain = [key \in ConfigKeys |-> <<>>]
    /\ written = {}
    /\ cfg_out = NoOut

\* no Settings page open
InitSettings ==
    /\ st_form = [key \in ConfigKeys |-> FormDefault(key)]
    /\ st_loading = FALSE
    /\ st_loaded = FALSE
    /\ st_resp = NoResp
    /\ st_saving = FALSE
    /\ st_edited = {}
    /\ st_message = "none"

InitBatch ==
    /\ bu_pc = "idle"
    /\ pdfFiles = <<>>
    /\ bu_i = 1
    /\ successCount = 0
    /\ bu_sent = <<>>
    /\ bu_accepted = 0
    /\ bu_failed_shown = {}
    /\ bu_final = NoFinal

InitTopics ==
    /\ tp_mounted = FALSE
    /\ tp_page = 1
    /\ searchKeyword = ""
    /\ selectedTag = NoTag
    /\ tp_timers = {}
    /\ tp_requests = {}
    /\ tp_shown = NoParams
    /\ tp_searched = FALSE
    /\ tp_first = NoParams
    /\ tp_failed = FALSE

InitPopup ==
    /\ ex_pc = "idle"
    /\ ex_tab = 0
    /\ ex_status = "none"
    /\ ex_open = {}
    /\ ex_next = 1
    /\ ex_shown = "none"

InitContent ==
    /\ oc_pc = "idle"
    /\ oc_useOCR = FALSE
    /\ oc_result = NoResult
    /\ oc_request = "none"

InitMaterials ==
    /\ mt_db = [i \in 1..MaxMaterials |-> i]
    /\ mt_mounted = FALSE
    /\ materials = <<>>
    /\ mt_total = 0
    /\ mt_page = 1
    /\ mt_keyword = ""
    /\ sourceFilter = NoFilter
    /\ selectedIds = {}

InitUsage ==
    /\ usageStats = usageStats0
    /\ localStorage = NoItem
    /\ us_today = 1
    /\ us_calls = 0
    /\ us_models = {}

\* let materials = []; let topics = []; the counters at 1
InitMock ==
    /\ mk_topics = <<>>
    /\ topicIdCounter = 1
    /\ mk_materials = <<>>
    /\ materialIdCounter = 1
    /\ mk_query = NoQuery
    /\ mk_response = NoList

InitPages ==
    /\ InitSettings
    /\ InitBatch
    /\ InitTopics
    /\ InitPopup
    /\ InitContent
    /\ InitMaterials
    /\ InitUsage
    /\ InitMock

\* the configuration the process starts with when only uploads are studied
InitUpOnly ==
    /\ allowed_domains = DEFAULT_ALLOWED_DOMAINS
    /\ dev_mode = FALSE
    /\ dl_pc = "idle"
    /\ dl_url = NoUrl
    /\ dl_dns = NoAnswer
    /\ dl_val = NoVal
    /\ dl_conn = NoAddr
    /\ InitUp
    /\ InitCfgIdle
    /\ InitPages

InitCfgOnly ==
    /\ allowed_domains = DEFAULT_ALLOWED_DOMAINS
    /\ dev_mode = FALSE
    /\ dl_pc = "idle"
    /\ dl_url = NoUrl
    /\ dl_dns = NoAnswer
    /\ dl_val = NoVal
    /\ dl_conn = NoAddr
    /\ InitUp
    /\ InitCfg
    /\ InitPages

Init == InitUrl /\ InitUp /\ InitCfgIdle /\ InitPages

NextUrl ==
    \/ DownloadValidate
    \/ DownloadFetch
    \/ DownloadReturn

NextUp ==
    \/ UploadPdf
    \/ UploadReturn

NextCfg ==
    \/ SetConfig
    \/ GetConfigValue
    \/ GetConfigForDisplay

\* image download requests
SpecUrl == Init /\ [][NextUrl]_vars

\* PDF upload requests
SpecUp == InitUpOnly /\ [][NextUp]_vars

\* configuration updates and reads
SpecCfg == InitCfgOnly /\ [][NextCfg]_vars

NextSettings ==
    \/ SettingsOpen
    \/ loadConfigs
    \/ SettingsEdit
    \/ handleSave
    \/ handleSaveDone

\* the Settings page in front of the configuration store
SpecSettings == InitCfgOnly /\ [][NextSettings]_vars

NextBatch ==
    \/ handleSubmitPDF
    \/ UploadOneFile
    \/ UploadSummary

\* batch uploads from the Home page
SpecBatch == InitUpOnly /\ [][NextBatch]_vars

NextTopics ==
    \/ TopicsMount
    \/ handleSearch
    \/ TopicsTimeout
    \/ handleTagFilter
    \/ handlePageChange
    \/ TopicsResponse

\* the Topics page
SpecTopics == InitUpOnly /\ [][NextTopics]_vars

NextPopup ==
    \/ extractFromUrl
    \/ TabComplete
    \/ UserClosesTab
    \/ waitForTabLoad
    \/ extractFromUrlMessage

\* the extension popup
SpecPopup == InitUpOnly /\ [][NextPopup]_vars

NextContent ==
    \/ extractContent
    \/ performOCR
    \/ ContentReturn

\* the content script
SpecContent == InitUpOnly /\ [][NextContent]_vars

NextMaterials ==
    \/ MaterialsMount
    \/ handleLoadMore
    \/ handleSearchMaterials
    \/ setSourceFilter
    \/ handleSelectAll
    \/ handleSelectOne
    \/ handleDeleteMaterial
    \/ handleBatchDelete
    \/ handleBatchSaveTags

\* the Materials page
SpecMaterials == InitUpOnly /\ [][NextMaterials]_vars

NextUsage ==
    \/ RecordUsage
    \/ Reload
    \/ NextDay

\* the usage tracker
SpecUsage == InitUpOnly /\ [][NextUsage]_vars

NextMock ==
    \/ CreateTopic
    \/ DeleteTopic
    \/ CreateMaterial
    \/ ListTopics
    \/ ListMaterials

\* the mock server
SpecMock == InitUpOnly /\ [][NextMock]_vars

-----------------------------------------------------------------------------
(* Properties of URL validation and download *)

\* the five ranges, written out octet by octet
InReservedRange(a) ==
    \/ a[1] = 10
    \/ a[1] = 172 /\ a[2] \in 16..31
    \/ a[1] = 192 /\ a[2] = 168
    \/ a[1] = 127
    \/ a[1] = 169 /\ a[2] = 254

OnAllowList(hostname) ==
    \E d \in allowed_domains :
        \/ d = hostname
        \/ /\ ~IsLiteral(d) /\ ~IsLiteral(hostname)
           /\ Len(d.labels) <= Len(hostname.labels)
           /\ SubSeq(hostname.labels,
                     Len(hostname.labels) - Len(d.labels) + 1,
                     Len(hostname.labels)) = d.labels

WellFormed(url) == url.scheme \in {"http", "https"} /\ ~url.userinfo

Validated == dl_pc # "idle"

\* C1: a well-formed URL whose allow-listed host name resolves to an answer
\* holding at least one address of 10/8, 172.16/12, 192.168/16, 127/8 or
\* 169.254/16 is rejected with PrivateAddressError, also when the other
\* addresses of the answer are public.
C1_AnyPrivateAddressRejects ==
    ( /\ Validated
      /\ WellFormed(dl_url)
      /\ OnAllowList(dl_url.hostname)
      /\ dl_dns.status = "ok"
      /\ \E a \in dl_dns.addrs : InReservedRange(a) )
    => (~dl_val.ok /\ dl_val.err = PrivateAddressError)

C3_ReservedLiteralIsPrivateAddressError ==
    ( /\ Validated
      /\ WellFormed(dl_url)
      /\ IsLiteral(dl_url.hostname)
      /\ InReservedRange(dl_url.hostname.ip) )
    => (~dl_val.ok /\ dl_val.err = PrivateAddressError /\ dl_val.lookups = 0)

\* C4: a URL whose scheme is not http or https, or that embeds userinfo, is
\* rejected with URLFormatError, also for an allow-listed host with a public
\* address.
C4_FormatErrorFirst ==
    ( /\ Validated
      /\ (dl_url.scheme \notin {"http", "https"} \/ dl_url.userinfo) )
    => (~dl_val.ok /\ dl_val.err = URLFormatError)

C4_Witness ==
    /\ dl_pc = "rejected"
    /\ dl_url.scheme = "ftp" /\ ~dl_url.userinfo
    /\ dl_url.hostname = HOST_CDN
    /\ dl_dns = [status |-> "ok", addrs |-> {PUB_DNS}]
    /\ dl_val.err = URLFormatError

\* C5: when the lookup of an allow-listed host of a well-formed URL fails or
\* times out, validation ends in DNSResolutionError, never in success.
C5_FailClosed ==
    ( /\ Validated
      /\ WellFormed(dl_url)
      /\ (dev_mode \/ OnAllowList(dl_url.hostname))
      /\ dl_dns.status \in {"nxdomain", "timeout"} )
    => (~dl_val.ok /\ dl_val.err = DNSResolutionError /\ dl_pc = "rejected")

C5_Witness ==
    /\ dl_pc = "rejected"
    /\ ~dev_mode
    /\ dl_url.hostname = HOST_CDN
    /\ dl_dns.status = "timeout"
    /\ dl_val.err = DNSResolutionError

\* C6: the fetch connects to the address validation resolved, so it never
\* reaches a reserved address.
C6_FetchUsesValidatedAddress ==
    dl_pc = "fetched" =>
        (dl_conn = dl_val.resolved_ip /\ ~InReservedRange(dl_conn))

-----------------------------------------------------------------------------
(* Properties of upload validation *)

HasForbidden(name) ==
    \E i \in 1..Len(name) :
        \/ name[i] \in {"/", "\\", "NUL"}
        \/ i < Len(name) /\ name[i] = "." /\ name[i + 1] = "."

EndsInPdf(name) ==
    /\ Len(name) >= 4
    /\ name[Len(name) - 3] = "."
    /\ name[Len(name) - 2] \in {"p", "P"}
    /\ name[Len(name) - 1] \in {"d", "D"}
    /\ name[Len(name)] \in {"f", "F"}

WithinLimit(c) == c.size <= 50 * 1048576

BeginsWithMagic(c) ==
    /\ c.size >= 5
    /\ <<Byte(c, 1), Byte(c, 2), Byte(c, 3), Byte(c, 4), Byte(c, 5)>>
         = <<"%", "P", "D", "F", "-">>

Uploaded == up_pc # "idle"

\* C8: an upload whose file name contains "..", "/", "\" or a NUL byte is
\* rejected with FilenameInvalidError, whatever its extension, size and
\* content.
C8_ForbiddenNameRejected ==
    (Uploaded /\ HasForbidden(up_req.filename))
    => (~up_res.ok /\ up_res.err = FilenameInvalidError /\ up_pc = "rejected")

C8_Witness ==
    /\ up_pc = "rejected"
    /\ up_req.filename = <<"r", "\\", "r", ".", "p", "d", "f">>
    /\ BeginsWithMagic(up_req.content)
    /\ WithinLimit(up_req.content)
    /\ up_res.err = FilenameInvalidError

\* C9: an upload with no forbidden sequence in its name, a name ending in
\* .pdf in any letter case, at most 50 MB of content and content beginning
\* with %PDF- is accepted, and the result is the name unchanged with the
\* size of the content in megabytes.
C9_ValidUploadAccepted ==
    ( /\ Uploaded
      /\ ~HasForbidden(up_req.filename)
      /\ EndsInPdf(up_req.filename)
      /\ WithinLimit(up_req.content)
      /\ BeginsWithMagic(up_req.content) )
    => /\ up_res.ok /\ up_pc = "accepted"
       /\ up_res.filename = up_req.filename
       /\ up_res.size_mb.whole * 1048576 + up_res.size_mb.bytes
            = up_req.content.size
       /\ up_res.size_mb.bytes \in 0..1048575

C9_Witness ==
    /\ up_pc = "accepted"
    /\ up_req.filename = <<"r", ".", "P", "d", "F">>
    /\ up_req.content.size = 50 * 1048576
    /\ up_res.filename = <<"r", ".", "P", "d", "F">>
    /\ up_res.size_mb = [whole |-> 50, bytes |-> 0]

\* C10: an upload with a valid name ending in .pdf and a size within the
\* limit whose content does not begin with %PDF- is rejected with
\* ContentSignatureError.
C10_SpoofedContentRejected ==
    ( /\ Uploaded
      /\ ~HasForbidden(up_req.filename)
      /\ EndsInPdf(up_req.filename)
      /\ WithinLimit(up_req.content)
      /\ ~BeginsWithMagic(up_req.content) )
    => (~up_res.ok /\ up_res.err = ContentSignatureError /\ up_pc = "rejected")

C10_Witness ==
    /\ up_pc = "rejected"
    /\ up_req.filename = <<"r", ".", "p", "d", "f">>
    /\ up_req.content.head = <<"M", "Z">>
    /\ WithinLimit(up_req.content)
    /\ up_res.err = ContentSignatureError

-----------------------------------------------------------------------------
(* Further properties of upload validation *)

\* C11: the file name a successful validation returns contains no "/" and
\* no "\", no ".." and no NUL byte, and ends in .pdf, the one allowed
\* extension, in some letter case.
C11_SanitizedFilename ==
    up_res.ok =>
        /\ \A i \in 1..Len(up_res.filename) :
              /\ up_res.filename[i] \notin {"/", "\\", "NUL"}
              /\ i < Len(up_res.filename) =>
                    ~(up_res.filename[i] = "." /\ up_res.filename[i + 1] = ".")
        /\ EndsInPdf(up_res.filename)

C11_Witness ==
    /\ up_pc = "accepted"
    /\ up_res.ok
    /\ up_res.filename = <<"r", ".", "r", ".", "p", "d", "f">>

\* C18: among uploads whose name and extension pass, FileTooLargeError is
\* the outcome exactly when the content is longer than 50 * 1,048,576
\* bytes, and the error carries the actual size and the maximum.
C18_TooLargeExactlyAboveLimit ==
    ( /\ Uploaded
      /\ ~HasForbidden(up_req.filename)
      /\ EndsInPdf(up_req.filename) )
    => /\ (up_res.err = FileTooLargeError) <=> (up_req.content.size > 50 * 1048576)
       /\ up_res.err = FileTooLargeError =>
             /\ ~up_res.ok
             /\ up_res.size_mb.whole * 1048576 + up_res.size_mb.bytes
                  = up_req.content.size
             /\ up_res.max_size_mb = 50

C18_Witness ==
    /\ up_pc = "rejected"
    /\ up_req.filename = <<"r", ".", "p", "d", "f">>
    /\ up_req.content.size = 50 * 1048576 + 1
    /\ up_req.content.head = <<"M", "Z">>
    /\ up_res.err = FileTooLargeError
    /\ up_res.size_mb = [whole |-> 50, bytes |-> 1]

\* content whose last bytes, white space aside, are not %%EOF
NoEofMarker(c) == c.tail = <<>>

\* C19: an upload that passes name, extension, size and magic bytes but has
\* no %%EOF at its end is accepted, and the missing marker is flagged as a
\* warning; with the marker there is no warning.
C19_MissingEofOnlyWarns ==
    ( /\ Uploaded
      /\ ~HasForbidden(up_req.filename)
      /\ EndsInPdf(up_req.filename)
      /\ WithinLimit(up_req.content)
      /\ BeginsWithMagic(up_req.content) )
    => /\ up_res.ok
       /\ up_res.warned <=> NoEofMarker(up_req.content)

C19_Witness ==
    /\ up_pc = "accepted"
    /\ up_req.content.head = <<"%", "P", "D", "F", "-", "1", ".", "4">>
    /\ up_req.content.tail = <<>>
    /\ up_res.ok
    /\ up_res.warned

\* C20: the checks run in the order file name, extension, size, signature,
\* and the error reported is that of the first check that fails.
C20_FirstFailingCheck ==
    Uploaded =>
        LET badName == HasForbidden(up_req.filename)
            badExt  == ~EndsInPdf(up_req.filename)
            badSize == ~WithinLimit(up_req.content)
            badSig  == ~BeginsWithMagic(up_req.content)
        IN  up_res.err =
              IF badName THEN FilenameInvalidError
              ELSE IF badExt THEN ExtensionNotAllowedError
              ELSE IF badSize THEN FileTooLargeError
              ELSE IF badSig THEN ContentSignatureError
              ELSE NoError

C20_Witness ==
    /\ up_pc = "rejected"
    /\ up_req.filename = <<"r", ".", "e", "x", "e">>
    /\ ~WithinLimit(up_req.content)
    /\ up_req.content.head = <<"M", "Z">>
    /\ up_res.err = ExtensionNotAllowedError

-----------------------------------------------------------------------------
(* Properties of the encrypted configuration store *)

SensitiveKeySet == {"openai_api_key", "deepseek_api_key", "claude_api_key",
                    "anthropic_api_key", "gemini_api_key"}

\* a token of the process key that hides the plaintext it carries
IsCiphertextOf(token, plaintext) ==
    /\ Len(token) = Len(plaintext) + 3
    /\ token[1] = "gAAAAA" /\ token[2] = cipher_key /\ token[3] \in {"iv1", "iv2"}
    /\ \A i \in 1..Len(plaintext) : token[i + 3] = plaintext[i]

\* C12: for every non-empty string s and every IV, decrypting the
\* encryption of s under the process key gives s back, without an
\* exception, and the encryption differs from s.
C12_RoundTrip ==
    \A s \in RequestValues(cipher_key) \ {<<>>}, iv \in IVs :
        /\ decrypt(encrypt(s, iv)) = [raised |-> FALSE, value |-> s]
        /\ encrypt(s, iv) # s

C12_Witness ==
    /\ "openai_api_key" \in written
    /\ last_plain["openai_api_key"] = <<"k", "*", "k">>
    /\ store["openai_api_key"] = <<"gAAAAA", "K2", "iv2", "k", "*", "k">>
    /\ cipher_key = "K2"
    /\ cfg_out = [op |-> "value", key |-> "openai_api_key", raised |-> FALSE,
                  value |-> <<"k", "*", "k">>]

\* C13: for every key updated, the stored value is a ciphertext token that
\* differs from the plaintext exactly when the key is sensitive and the
\* last plaintext written is non-empty; otherwise it is that plaintext.
C13_StoredForm ==
    \A key \in written :
        IF key \in SensitiveKeySet /\ last_plain[key] # <<>>
        THEN /\ store[key] # last_plain[key]
             /\ IsCiphertextOf(store[key], last_plain[key])
        ELSE store[key] = last_plain[key]

C13_Witness ==
    /\ written = {"openai_api_key", "default_ai_model"}
    /\ last_plain["openai_api_key"] = <<>>
    /\ store["openai_api_key"] = <<>>
    /\ last_plain["default_ai_model"] = <<"k", "k">>
    /\ store["default_ai_model"] = <<"k", "k">>

\* C14: for every key updated, get_config_value returns the plaintext of
\* the last update of that key, whatever was written to the other keys.
C14_ReadsLastWrite ==
    /\ \A key \in written :
          get_config_value(key) = [raised |-> FALSE, value |-> last_plain[key]]
    /\ (cfg_out.op = "value" /\ cfg_out.key \in written) =>
          (~cfg_out.raised /\ cfg_out.value = last_plain[cfg_out.key])

C14_Witness ==
    /\ written = {"openai_api_key", "default_ai_model"}
    /\ last_plain["default_ai_model"] = <<"k", "*">>
    /\ last_plain["openai_api_key"] = <<"*", "k", "k", "k">>
    /\ cfg_out = [op |-> "value", key |-> "openai_api_key", raised |-> FALSE,
                  value |-> <<"*", "k", "k", "k">>]

\* a stored value Fernet does not accept under the process key
Undecryptable(value) ==
    ~(Len(value) >= 3 /\ value[1] = "gAAAAA" /\ value[2] = cipher_key)

\* C15: reading a stored value that cannot be decrypted raises nothing and
\* returns the stored value unchanged.
C15_LegacyPassthrough ==
    /\ \A key \in ConfigKeys :
          Undecryptable(store[key]) =>
              get_config_value(key) = [raised |-> FALSE, value |-> store[key]]
    /\ (cfg_out.op = "value" /\ Undecryptable(store[cfg_out.key])) =>
          (~cfg_out.raised /\ cfg_out.value = store[cfg_out.key])

C15_Witness ==
    /\ written = {}
    /\ store["openai_api_key"] = <<"k", "*", "k", "k">>
    /\ cfg_out = [op |-> "value", key |-> "openai_api_key", raised |-> FALSE,
                  value |-> <<"k", "*", "k", "k">>]

\* the two strings share four consecutive characters
CommonSubstring4(a, b) ==
    \E i \in 1..(Len(a) - 3), j \in 1..(Len(b) - 3) :
        SubSeq(a, i, i + 3) = SubSeq(b, j, j + 3)

MaskChars == {"*", ".", "yi", "she", "zhi"}

\* four consecutive characters of the string all occur in the placeholder
HasMaskRun(str) ==
    \E i \in 1..(Len(str) - 3) : \A j \in i..(i + 3) : str[j] \in MaskChars

\* C16 as stated: for a sensitive key with a set value, the displayed string
\* shares no substring of four or more characters with the plaintext,
\* whatever the plaintext is.
C16_NoSubstringOfAnyPlaintext ==
    \A key \in written \cap SensitiveKeySet :
        last_plain[key] # <<>> =>
            ~CommonSubstring4(get_config_for_display(key), last_plain[key])

\* C16 amended: the displayed string shares no substring of four or more
\* characters with the plaintext, unless the plaintext itself contains four
\* consecutive characters of the placeholder.
C16_NoSubstringUnlessMaskRun ==
    /\ \A key \in written \cap SensitiveKeySet :
          (last_plain[key] # <<>> /\ ~HasMaskRun(last_plain[key])) =>
              ~CommonSubstring4(get_config_for_display(key), last_plain[key])
    /\ ( /\ cfg_out.op = "display"
         /\ cfg_out.key \in written \cap SensitiveKeySet
         /\ last_plain[cfg_out.key] # <<>>
         /\ ~HasMaskRun(last_plain[cfg_out.key]) ) =>
          ~CommonSubstring4(cfg_out.value, last_plain[cfg_out.key])

C16_Witness ==
    /\ "openai_api_key" \in written
    /\ last_plain["openai_api_key"] = <<"k", "k", "k", "k">>
    /\ cfg_out.op = "display"
    /\ cfg_out.key = "openai_api_key"
    /\ Len(cfg_out.value) = 14

\* C17: for a sensitive key the displayed string is the same placeholder
\* for every non-empty stored secret and empty when nothing is set; for any
\* other key it is the stored value as it is.
C17_DisplayDependsOnSetOnly ==
    cfg_out.op = "display" =>
        IF cfg_out.key \in SensitiveKeySet
        THEN cfg_out.value =
               IF store[cfg_out.key] = <<>> THEN <<>>
               ELSE <<"*", "*", "*", "*", "*", "*", "*", "*", ".", ".", ".",
                      "yi", "she", "zhi">>
        ELSE cfg_out.value = store[cfg_out.key]

C17_Witness ==
    /\ cfg_out.op = "display"
    /\ cfg_out.key = "openai_api_key"
    /\ last_plain["openai_api_key"] = <<"k", "*", "*", "k">>
    /\ "openai_api_key" \in written
    /\ cfg_out.value = MASK
    /\ store["default_ai_model"] = <<"k", "k">>

-----------------------------------------------------------------------------
(* Properties of the Settings page *)

\* C22: a save from a Settings page that loaded its values and whose API-key
\* fields were not edited leaves get_config_value of every sensitive key as
\* it was: the secret is not replaced by the redaction placeholder.
C22_SaveKeepsUneditedSecrets ==
    [][ ( /\ ~st_saving /\ st_saving' /\ st_resp' = "ok"
          /\ st_loaded )
        => \A key \in (ConfigKeys \cap SensitiveKeySet) \ st_edited :
              get_config_value(key)' = get_config_value(key) ]_vars

-----------------------------------------------------------------------------
(* Properties of the batch upload *)

\* C23: when handleSubmitPDF has ended for a non-empty selection, every
\* selected file was sent once, also the files behind one that failed, and
\* the count of the closing message is the number of files the server
\* accepted.
C23_EveryFileSentOnce ==
    (bu_pc = "done" /\ Len(bu_sent) > 0)
    => /\ \A i \in 1..Len(bu_sent) : bu_sent[i] = 1
       /\ bu_final.count = bu_accepted

-----------------------------------------------------------------------------
(* Properties of the Topics page *)

\* C24: after handleSearch(value), the first topic-list request sent carries
\* search = value and page = 1, and once nothing is pending and no request
\* failed, the list displayed is the result of that request; also when page
\* was 1 before the search.
C24_SearchRequestCarriesValue ==
    tp_searched =>
       /\ ( tp_first # NoParams
            => (tp_first.search = searchKeyword /\ tp_first.page = 1) )
       /\ ( (tp_requests = {} /\ tp_timers = {} /\ ~tp_failed)
            => tp_shown = Params(1, searchKeyword, selectedTag) )

-----------------------------------------------------------------------------
(* Properties of the extension popup *)

\* C25: once a call of extractFromUrl has ended, on whichever path, no
\* temporary tab it created is left open.
C25_TemporaryTabRemoved ==
    ex_pc = "ended" => ex_open = {}

-----------------------------------------------------------------------------
(* Properties of the content script *)

\* the texts of the entries whose recognition succeeded
RecognisedTexts(ocrResults) ==
    LET ok(r) == r.success
        good == SelectSeq(ocrResults, ok)
    IN  [i \in 1..Len(good) |-> good[i].text]

\* C26: combinedText is the original text followed by the texts of the
\* images whose OCR succeeded and nothing else; when the OCR request failed
\* it is the original text alone, with no error placeholder in it.
C26_CombinedTextWithoutPlaceholders ==
    oc_pc = "done" =>
       /\ oc_result.combinedText
             = join(<<oc_result.originalText>>
                    \o RecognisedTexts(oc_result.ocrResults))
       /\ ( oc_request = "failed"
            => /\ oc_result.combinedText = join(<<oc_result.originalText>>)
               /\ \A i \in 1..Len(oc_result.combinedText) :
                     oc_result.combinedText[i] \notin PlaceholderTexts )

-----------------------------------------------------------------------------
(* Properties of the Materials page *)

\* C27: every id in selectedIds is the id of a material of the list on
\* display, after any sequence of select, select all, load of another page,
\* filter change, search and delete.
C27_SelectionIsDisplayed ==
    selectedIds \subseteq Range(materials)

-----------------------------------------------------------------------------
(* Properties of the usage tracker *)

RECURSIVE Sum(_, _, _)
\* the sum of table[k][field] over the keys in keys
Sum(table, keys, field) ==
    IF keys = {} THEN 0
    ELSE LET k == CHOOSE x \in keys : TRUE
         IN  table[k][field] + Sum(table, keys \ {k}, field)

Consistent(stats) ==
    /\ stats.totalRequests
          = Sum(stats.byModel, DOMAIN stats.byModel, "requests")
    /\ stats.totalRequests
          = Sum(stats.dailyUsage, DOMAIN stats.dailyUsage, "requests")
    /\ stats.totalTokens
          = Sum(stats.byModel, DOMAIN stats.byModel, "tokens")

\* C28: after any sequence of recordUsage calls, totalRequests is the sum of
\* the requests of byModel and the sum of the requests of dailyUsage,
\* totalTokens is the sum of the tokens of byModel, and a model the initial
\* table does not list has its own entry in byModel once it was recorded.
C28_TotalsAreSums ==
    /\ Consistent(usageStats)
    /\ Consistent(getUsageStats)
    /\ \A m \in us_models :
          /\ m \in DOMAIN usageStats.byModel
          /\ usageStats.byModel[m].requests > 0

\* an unlisted model recorded, on two days
C28_Witness ==
    /\ usageStats.totalRequests = 3
    /\ "claude-3" \in DOMAIN usageStats.byModel
    /\ usageStats.byModel["claude-3"].requests = 1
    /\ usageStats.byModel["claude-3"].tokens = 2000
    /\ DOMAIN usageStats.dailyUsage = {1, 2}

\* C29: whatever the interleaving of recordUsage calls and reloads,
\* getUsageStats().totalRequests is the number of recordUsage calls made.
C29_StatsSurviveReload ==
    getUsageStats.totalRequests = us_calls

-----------------------------------------------------------------------------
(* Properties of the mock server *)

\* the topics that carry the tag and the search text, in insertion order
MatchingTopics(tags, search) ==
    LET Matches(t) == /\ (tags # "" => tags \in t.tags)
                      /\ (search = "ai" => t.title = "ai news")
    IN  SelectSeq(mk_topics, Matches)

MatchingMaterials(filter, search) ==
    LET Matches(id) == /\ (filter # NoFilter => source_type(id) = filter)
                       /\ (search = "ai" => id % 3 = 0)
    IN  SelectSeq(mk_materials, Matches)

PageCount(total, n) == (total + n - 1) \div n

RECURSIVE TopicPages(_, _, _, _)
\* the items of pages 1..p, one page after the other
TopicPages(p, n, tags, search) ==
    IF p = 0 THEN <<>>
    ELSE TopicPages(p - 1, n, tags, search)
            \o getTopics(mk_topics, p, n, tags, search).topics

RECURSIVE MaterialPages(_, _, _, _)
MaterialPages(p, n, filter, search) ==
    IF p = 0 THEN <<>>
    ELSE MaterialPages(p - 1, n, filter, search)
            \o getList(mk_materials, p, n, search, filter).items

\* C30: GET /api/topics and GET /api/materials with page p and per_page n
\* give at most n items, total is the number of items that match the
\* search and the filter, and pages 1..ceil(total/n) of an unchanged list
\* give every matching item once, in insertion order.
C30_PagesPartitionTheList ==
    /\ \A n \in QueryPerPages, tags \in TopicTags \cup {""}, search \in TopicSearches :
          /\ \A p \in QueryPages :
                LET data == getTopics(mk_topics, p, n, tags, search)
                IN  /\ Len(data.topics) <= n
                    /\ data.total = Len(MatchingTopics(tags, search))
          /\ TopicPages(PageCount(Len(MatchingTopics(tags, search)), n),
                        n, tags, search)
                = MatchingTopics(tags, search)
    /\ \A n \in QueryPerPages, filter \in SourceFilters, search \in MaterialKeywords :
          /\ \A p \in QueryPages :
                LET data == getList(mk_materials, p, n, search, filter)
                IN  /\ Len(data.items) <= n
                    /\ data.total = Len(MatchingMaterials(filter, search))
          /\ MaterialPages(PageCount(Len(MatchingMaterials(filter, search)), n),
                           n, filter, search)
                = MatchingMaterials(filter, search)

\* the second page of the two topics tagged "life" that are left of three
\* after a deletion
C30_Witness ==
    /\ mk_query.path = "/api/topics"
    /\ mk_query.page = 2 /\ mk_query.per_page = 1
    /\ mk_query.filter = "life" /\ mk_query.search = ""
    /\ Len(mk_topics) = 2
    /\ topicIdCounter = 4
    /\ mk_topics[1].id = 1 /\ mk_topics[2].id = 3
    /\ mk_response.total = 2
    /\ mk_response.items = <<mk_topics[2]>>
    /\ mk_response.items = getTopics(mk_topics, 2, 1, "life", "").topics

====
